-------------------------- MODULE FileMoverTool_proofs --------------------------
(***************************************************************************)
(* The FileMover tool, for every tree, every list of names, every fault    *)
(* and every interleaving of stops and answers: it keeps to its types and  *)
(* to the protocol of ToolProtocol, and as to the two directories older    *)
(* files survive until the user is asked about them, and a cleanup undoes  *)
(* the operation.                                                          *)
(*                                                                         *)
(* Types and the protocol need no more than the data of a step.  For the   *)
(* directories paths come first: being under a path is a tree order.  The  *)
(* proofs that need an induction along a path take the shortest counter-   *)
(* example, which exists because < on the naturals is well founded.        *)
(* WalkInv then says where the tool is and what stands at the destination, *)
(* TouchInv what has been touched so far.                                  *)
(***************************************************************************)
EXTENDS FileMoverTool, WellFoundedInduction, TLAPS

\* The parent of a nested path, paths below a path and the listed files are
\* paths of the tree.
LEMMA PathsInTree ==
  /\ \A n \in Node : Len(n) > 1 => Parent(n) \in Node
  /\ \A n \in Node : Under(n) \subseteq Node
  /\ \A i \in 1..Len(FileList) : FileList[i] \in Node
  /\ Len(FileList) \in Nat
<1>1. \A n \in Node : Len(n) > 1 => Parent(n) \in Node
  BY TreeAssumption
<1>2. \A n \in Node : Under(n) \subseteq Node
  BY DEF Under
<1>3. FileList \in Seq(Node)
  BY TreeAssumption
<1>4. QED
  BY <1>1, <1>2, <1>3

\* Every step of the tool, of its user and of the signal keeps the data types.
LEMMA DataStep == DataTypes /\ [Next]_vars => DataTypes'
<1> SUFFICES ASSUME DataTypes, [Next]_vars PROVE DataTypes'
  OBVIOUS
<1> USE DEF DataTypes, Operation, Object, Problem, Solution, PCs, WorkPCs, Go, args, fs, comm, walk, fin
<1>1. CASE InstallHandler
  BY <1>1 DEF InstallHandler
<1>2. CASE Start
  BY <1>2 DEF Start
<1>3. CASE NextFile
  BY <1>3, PathsInTree DEF NextFile, FirstStep, More
<1>4. CASE EndOfFiles
  BY <1>4 DEF EndOfFiles
<1>5. CASE Finish
  BY <1>5 DEF Finish, CleanUp, RemoveListed, Without, MoveBackListed
<1>6. CASE Report
  BY <1>6 DEF Report
<1>7. CASE CopyFile
  BY <1>7 DEF CopyFile, Ask
<1>8. CASE CopyDirectory
  BY <1>8 DEF CopyDirectory, Ask, Create
<1>9. CASE DirExists
  BY <1>9 DEF DirExists, DropTarget, Ask, Without
<1>10. CASE DirList
  <2> DEFINE C == {m \in Children(cur) : Present(m)}
  <2>1. C \in SUBSET Node
    BY PathsInTree DEF Children
  <2> HIDE DEF C
  <2>2. \/ pending' = [pending EXCEPT ![cur] = C] /\ Go("dirLoop")
        \/ Ask(cur, "ReadError", "retNO") /\ UNCHANGED pending
    BY <1>10 DEF DirList, C
  <2>3. QED
    BY <1>10, <2>1, <2>2 DEF DirList, Ask
<1>11. CASE DirNext
  BY <1>11, PathsInTree DEF DirNext
<1>12. CASE DirEnd
  BY <1>12 DEF DirEnd, Ask
<1>13. CASE CopyRegular
  BY <1>13 DEF CopyRegular, Ask
<1>14. CASE RegExists
  BY <1>14 DEF RegExists, DropTarget, Ask, Without
<1>15. CASE RegCreate
  BY <1>15 DEF RegCreate, Create, Ask
<1>16. CASE RegOpen
  BY <1>16 DEF RegOpen, Ask
<1>17. CASE RegLoop
  BY <1>17 DEF RegLoop
<1>18. CASE RegSpinEnds
  BY <1>18 DEF RegSpinEnds
<1>19. CASE RegAttrs
  BY <1>19 DEF RegAttrs, Ask
<1>20. CASE DuplicateSymbolicLink
  BY <1>20 DEF DuplicateSymbolicLink, Ask, FollowSolution
<1>21. CASE CopySymbolicLink
  BY <1>21 DEF CopySymbolicLink, Ask, FollowSolution
<1>22. CASE SymlinkNoTarget
  BY <1>22 DEF SymlinkNoTarget, FollowSolution
<1>23. CASE NewLink
  BY <1>23 DEF NewLink, Ask
<1>24. CASE NewLinkExists
  BY <1>24 DEF NewLinkExists, DropTarget, Ask, Without
<1>25. CASE NewLinkGo
  BY <1>25 DEF NewLinkGo, Create, Ask
<1>26. CASE Return
  BY <1>26, PathsInTree DEF Return
<1>27. CASE Move
  BY <1>27 DEF Move, Ask
<1>28. CASE MoveExists
  BY <1>28 DEF MoveExists, DropTarget, Ask, Without
<1>29. CASE MoveRename
  BY <1>29 DEF MoveRename, Ask, Without
<1>30. CASE MoveByCopy
  BY <1>30 DEF MoveByCopy
<1>31. CASE CopyDone
  BY <1>31 DEF CopyDone, RemoveListed, Without
<1>32. CASE MoveDelete
  BY <1>32 DEF MoveDelete
<1>33. CASE Delete
  BY <1>33, PathsInTree DEF Delete, Ask, Removable
<1>34. CASE DeleteEnd
  BY <1>34 DEF DeleteEnd
<1>35. CASE Link
  BY <1>35 DEF Link, Ask
<1>36. CASE LinkExists
  BY <1>36 DEF LinkExists, DropTarget, Ask, Without
<1>37. CASE LinkGo
  BY <1>37 DEF LinkGo, Create, Ask
<1>38. CASE Answer
  BY <1>38 DEF Answer, Solutions
<1>39. CASE AnswerStop
  BY <1>39 DEF AnswerStop
<1>40. CASE Interrupt
  BY <1>40 DEF Interrupt
<1>41. CASE Killed
  BY <1>41 DEF Killed
<1>42. CASE Done
  BY <1>42 DEF Done, vars
<1>43. CASE UNCHANGED vars
  BY <1>43 DEF vars
<1>44. QED
  BY <1>1, <1>2, <1>3, <1>4, <1>5, <1>6, <1>7, <1>8, <1>9, <1>10, <1>11, <1>12, <1>13, <1>14, <1>15, <1>16, <1>17, <1>18, <1>19, <1>20, <1>21, <1>22, <1>23, <1>24, <1>25, <1>26, <1>27, <1>28, <1>29, <1>30, <1>31, <1>32, <1>33, <1>34, <1>35, <1>36, <1>37, <1>38, <1>39, <1>40, <1>41, <1>42, <1>43
  DEF Next, ToolStep, CopyStep, MoveStep

\* ... and the flags.
LEMMA FlagStep == FlagTypes /\ [Next]_vars => FlagTypes'
<1> SUFFICES ASSUME FlagTypes, [Next]_vars PROVE FlagTypes'
  OBVIOUS
<1> USE DEF FlagTypes, Go, args, fs, comm, walk, fin
<1>1. CASE InstallHandler
  BY <1>1 DEF InstallHandler
<1>2. CASE Start
  BY <1>2 DEF Start
<1>3. CASE NextFile
  BY <1>3 DEF NextFile
<1>4. CASE EndOfFiles
  BY <1>4 DEF EndOfFiles
<1>5. CASE Finish
  BY <1>5 DEF Finish
<1>6. CASE Report
  BY <1>6 DEF Report
<1>7. CASE CopyFile
  BY <1>7 DEF CopyFile, Ask
<1>8. CASE CopyDirectory
  BY <1>8 DEF CopyDirectory, Ask, Create
<1>9. CASE DirExists
  BY <1>9 DEF DirExists, DropTarget, Ask
<1>10. CASE DirList
  BY <1>10 DEF DirList, Ask
<1>11. CASE DirNext
  BY <1>11 DEF DirNext
<1>12. CASE DirEnd
  BY <1>12 DEF DirEnd, Ask
<1>13. CASE CopyRegular
  BY <1>13 DEF CopyRegular, Ask
<1>14. CASE RegExists
  BY <1>14 DEF RegExists, DropTarget, Ask
<1>15. CASE RegCreate
  BY <1>15 DEF RegCreate, Create, Ask
<1>16. CASE RegOpen
  BY <1>16 DEF RegOpen, Ask
<1>17. CASE RegLoop
  BY <1>17 DEF RegLoop
<1>18. CASE RegSpinEnds
  BY <1>18 DEF RegSpinEnds
<1>19. CASE RegAttrs
  BY <1>19 DEF RegAttrs, Ask
<1>20. CASE DuplicateSymbolicLink
  BY <1>20 DEF DuplicateSymbolicLink, Ask, FollowSolution
<1>21. CASE CopySymbolicLink
  BY <1>21 DEF CopySymbolicLink, Ask, FollowSolution
<1>22. CASE SymlinkNoTarget
  BY <1>22 DEF SymlinkNoTarget, FollowSolution
<1>23. CASE NewLink
  BY <1>23 DEF NewLink, Ask
<1>24. CASE NewLinkExists
  BY <1>24 DEF NewLinkExists, DropTarget, Ask
<1>25. CASE NewLinkGo
  BY <1>25 DEF NewLinkGo, Create, Ask
<1>26. CASE Return
  BY <1>26 DEF Return
<1>27. CASE Move
  BY <1>27 DEF Move, Ask
<1>28. CASE MoveExists
  BY <1>28 DEF MoveExists, DropTarget, Ask
<1>29. CASE MoveRename
  BY <1>29 DEF MoveRename, Ask
<1>30. CASE MoveByCopy
  BY <1>30 DEF MoveByCopy
<1>31. CASE CopyDone
  BY <1>31 DEF CopyDone
<1>32. CASE MoveDelete
  BY <1>32 DEF MoveDelete
<1>33. CASE Delete
  BY <1>33 DEF Delete, Ask
<1>34. CASE DeleteEnd
  BY <1>34 DEF DeleteEnd
<1>35. CASE Link
  BY <1>35 DEF Link, Ask
<1>36. CASE LinkExists
  BY <1>36 DEF LinkExists, DropTarget, Ask
<1>37. CASE LinkGo
  BY <1>37 DEF LinkGo, Create, Ask
<1>38. CASE Answer
  BY <1>38 DEF Answer
<1>39. CASE AnswerStop
  BY <1>39 DEF AnswerStop
<1>40. CASE Interrupt
  BY <1>40 DEF Interrupt
<1>41. CASE Killed
  BY <1>41 DEF Killed
<1>42. CASE Done
  BY <1>42 DEF Done, vars
<1>43. CASE UNCHANGED vars
  BY <1>43 DEF vars
<1>44. QED
  BY <1>1, <1>2, <1>3, <1>4, <1>5, <1>6, <1>7, <1>8, <1>9, <1>10, <1>11, <1>12, <1>13, <1>14, <1>15, <1>16, <1>17, <1>18, <1>19, <1>20, <1>21, <1>22, <1>23, <1>24, <1>25, <1>26, <1>27, <1>28, <1>29, <1>30, <1>31, <1>32, <1>33, <1>34, <1>35, <1>36, <1>37, <1>38, <1>39, <1>40, <1>41, <1>42, <1>43
  DEF Next, ToolStep, CopyStep, MoveStep

\* TypeOK holds in every reachable state of the tool.
THEOREM TypeCorrect == Spec => []TypeOK
<1>1. Init => DataTypes
  BY TreeAssumption, RunAssumption
  DEF Init, DataTypes, Operation, Object, Problem, Solution, PCs, WorkPCs, OldTrees, Source
<1>2. Init => FlagTypes
  BY DEF Init, FlagTypes
<1>3. QED
  BY <1>1, <1>2, DataStep, FlagStep, PTL DEF Spec, TypeOK

\* Raising an alert is the protocol's Question, unless a default answers it.
LEMMA AskImplementsQuestion ==
  ASSUME DataTypes, pc \in WorkPCs, NEW n, NEW p \in Problem, NEW k \in WorkPCs,
         Ask(n, p, k), UNCHANGED <<isStopped, result>>
  PROVE  [Protocol!Next]_Protocol!vars
<1>1. CASE default[p] = "NOT_SET"
  <2>1. Protocol!Question(p)
    BY <1>1 DEF Ask, DataTypes, WorkPCs, PCs, Protocol!Question
  <2>2. QED
    BY <2>1 DEF Protocol!Next
<1>2. CASE default[p] # "NOT_SET"
  BY <1>2 DEF Ask, WorkPCs, Protocol!vars
<1>3. QED
  BY <1>1, <1>2

\* Going on without an alert changes nothing the Workspace can see.
LEMMA GoStutters ==
  ASSUME pc \in WorkPCs, NEW k \in WorkPCs, Go(k), UNCHANGED <<isStopped, result>>
  PROVE  [Protocol!Next]_Protocol!vars
BY DEF Go, comm, WorkPCs, Protocol!vars

\* Each step of the tool is a step of the protocol or none of its business.
LEMMA ProtocolStep == DataTypes /\ [Next]_vars => [Protocol!Next]_Protocol!vars
<1> SUFFICES ASSUME DataTypes, [Next]_vars PROVE [Protocol!Next]_Protocol!vars
  OBVIOUS
<1> USE DEF args, fs, walk, fin
<1>1. CASE InstallHandler
  <2>1. Protocol!InstallHandler
    BY <1>1 DEF InstallHandler, Go, comm, Protocol!InstallHandler
  <2>2. QED
    BY <2>1 DEF Protocol!Next
<1>2. CASE Start
  <2>1. Protocol!Start
    BY <1>2 DEF Start, Go, comm, Protocol!Start
  <2>2. QED
    BY <2>1 DEF Protocol!Next
<1>3. CASE NextFile
  <2>1. FirstStep[op] \in WorkPCs
    BY DEF DataTypes, Operation, FirstStep, WorkPCs
  <2>2. QED
    BY <1>3, <2>1 DEF NextFile, WorkPCs, Protocol!vars
<1>4. CASE EndOfFiles
  BY <1>4, GoStutters DEF EndOfFiles, WorkPCs, Problem
<1>5. CASE Finish
  BY <1>5, GoStutters DEF Finish, WorkPCs, Problem
<1>6. CASE Report
  <2>1. Protocol!Exit
    BY <1>6 DEF Report, Go, comm, Protocol!Exit
  <2>2. QED
    BY <2>1 DEF Protocol!Next
<1>7. CASE CopyFile
  BY <1>7, GoStutters, AskImplementsQuestion DEF CopyFile, WorkPCs, Problem
<1>8. CASE CopyDirectory
  BY <1>8, GoStutters, AskImplementsQuestion DEF CopyDirectory, Create, WorkPCs, Problem
<1>9. CASE DirExists
  BY <1>9, GoStutters, AskImplementsQuestion DEF DirExists, DropTarget, WorkPCs, Problem
<1>10. CASE DirList
  BY <1>10, GoStutters, AskImplementsQuestion DEF DirList, WorkPCs, Problem
<1>11. CASE DirNext
  BY <1>11, GoStutters DEF DirNext, WorkPCs, Problem
<1>12. CASE DirEnd
  BY <1>12, GoStutters, AskImplementsQuestion DEF DirEnd, WorkPCs, Problem
<1>13. CASE CopyRegular
  BY <1>13, GoStutters, AskImplementsQuestion DEF CopyRegular, WorkPCs, Problem
<1>14. CASE RegExists
  BY <1>14, GoStutters, AskImplementsQuestion DEF RegExists, DropTarget, WorkPCs, Problem
<1>15. CASE RegCreate
  BY <1>15, GoStutters, AskImplementsQuestion DEF RegCreate, Create, WorkPCs, Problem
<1>16. CASE RegOpen
  BY <1>16, GoStutters, AskImplementsQuestion DEF RegOpen, WorkPCs, Problem
<1>17. CASE RegLoop
  BY <1>17, GoStutters DEF RegLoop, WorkPCs, Problem
<1>18. CASE RegSpinEnds
  BY <1>18, GoStutters DEF RegSpinEnds, WorkPCs, Problem
<1>19. CASE RegAttrs
  BY <1>19, GoStutters, AskImplementsQuestion DEF RegAttrs, WorkPCs, Problem
<1>20. CASE DuplicateSymbolicLink
  BY <1>20, GoStutters, AskImplementsQuestion DEF DuplicateSymbolicLink, FollowSolution, WorkPCs, Problem
<1>21. CASE CopySymbolicLink
  BY <1>21, GoStutters, AskImplementsQuestion DEF CopySymbolicLink, FollowSolution, WorkPCs, Problem
<1>22. CASE SymlinkNoTarget
  BY <1>22, GoStutters DEF SymlinkNoTarget, FollowSolution, WorkPCs, Problem
<1>23. CASE NewLink
  BY <1>23, GoStutters, AskImplementsQuestion DEF NewLink, WorkPCs, Problem
<1>24. CASE NewLinkExists
  BY <1>24, GoStutters, AskImplementsQuestion DEF NewLinkExists, DropTarget, WorkPCs, Problem
<1>25. CASE NewLinkGo
  BY <1>25, GoStutters, AskImplementsQuestion DEF NewLinkGo, Create, WorkPCs, Problem
<1>26. CASE Return
  BY <1>26, GoStutters DEF Return, WorkPCs, Problem
<1>27. CASE Move
  BY <1>27, GoStutters, AskImplementsQuestion DEF Move, WorkPCs, Problem
<1>28. CASE MoveExists
  BY <1>28, GoStutters, AskImplementsQuestion DEF MoveExists, DropTarget, WorkPCs, Problem
<1>29. CASE MoveRename
  BY <1>29, GoStutters, AskImplementsQuestion DEF MoveRename, WorkPCs, Problem
<1>30. CASE MoveByCopy
  BY <1>30, GoStutters DEF MoveByCopy, WorkPCs, Problem
<1>31. CASE CopyDone
  BY <1>31, GoStutters DEF CopyDone, WorkPCs, Problem
<1>32. CASE MoveDelete
  BY <1>32, GoStutters DEF MoveDelete, WorkPCs, Problem
<1>33. CASE Delete
  BY <1>33, GoStutters, AskImplementsQuestion DEF Delete, WorkPCs, Problem
<1>34. CASE DeleteEnd
  BY <1>34, GoStutters DEF DeleteEnd, WorkPCs, Problem
<1>35. CASE Link
  BY <1>35, GoStutters, AskImplementsQuestion DEF Link, WorkPCs, Problem
<1>36. CASE LinkExists
  BY <1>36, GoStutters, AskImplementsQuestion DEF LinkExists, DropTarget, WorkPCs, Problem
<1>37. CASE LinkGo
  BY <1>37, GoStutters, AskImplementsQuestion DEF LinkGo, Create, WorkPCs, Problem
<1>38. CASE Answer
  <2>1. PICK s \in Solutions[problem], all \in BOOLEAN :
          sol' = s /\ default' = IF all THEN [default EXCEPT ![problem] = s] ELSE default
    BY <1>38 DEF Answer
  <2>2. Protocol!Reply(s, all) /\ problem # "none"
    BY <1>38, <2>1 DEF Answer, DataTypes, WorkPCs, Protocol!Reply, Protocol!NoQuestion
  <2>3. QED
    BY <2>1, <2>2 DEF Protocol!Next, Protocol!NoQuestion
<1>39. CASE AnswerStop
  <2>1. Protocol!ReplyStop
    BY <1>39 DEF AnswerStop, DataTypes, WorkPCs, Protocol!ReplyStop, Protocol!NoQuestion
  <2>2. QED
    BY <2>1 DEF Protocol!Next
<1>40. CASE Interrupt
  <2>1. Protocol!Signal
    BY <1>40 DEF Interrupt, comm, Protocol!Signal
  <2>2. QED
    BY <2>1 DEF Protocol!Next
<1>41. CASE Killed
  <2>1. Protocol!Signal
    BY <1>41 DEF Killed, comm, Protocol!Signal
  <2>2. QED
    BY <2>1 DEF Protocol!Next
<1>42. CASE Done
  BY <1>42 DEF Done, vars, comm, Protocol!vars
<1>43. CASE UNCHANGED vars
  BY <1>43 DEF vars, comm, Protocol!vars
<1>44. QED
  BY <1>1, <1>2, <1>3, <1>4, <1>5, <1>6, <1>7, <1>8, <1>9, <1>10, <1>11, <1>12, <1>13, <1>14, <1>15, <1>16, <1>17, <1>18, <1>19, <1>20, <1>21, <1>22, <1>23, <1>24, <1>25, <1>26, <1>27, <1>28, <1>29, <1>30, <1>31, <1>32, <1>33, <1>34, <1>35, <1>36, <1>37, <1>38, <1>39, <1>40, <1>41, <1>42, <1>43
  DEF Next, ToolStep, CopyStep, MoveStep

\* The tool implements the alert protocol the Workspace relies on.
THEOREM ToolImplementsProtocol == Spec => ImplementsProtocol
<1>1. Init => Protocol!Init
  BY DEF Init, Protocol!Init, Protocol!NoQuestion
<1>2. Spec => []DataTypes
  BY TypeCorrect, PTL DEF TypeOK
<1>3. QED
  BY <1>1, <1>2, ProtocolStep, PTL DEF Spec, ImplementsProtocol, Protocol!Spec

-----------------------------------------------------------------------------
(* The two directories *)

\* Where the tool goes on, once an open alert is answered.
Point == IF pc = "wait" THEN cont ELSE pc

\* The points of the functions of Copy.m, Move.m, Link.m and Delete.m.
RegPCs == {"regular", "regExists", "regCreate", "regOpen", "regLoop", "regSpin"}
LinkNodePCs == {"symlink", "symlinkNoTarget", "newLink", "newLinkExists", "newLinkGo"}
\* CopyFile has been called for cur and has not dealt with it yet ...
AtWork == {"copyFile", "dir", "dirExists", "dirList"} \union RegPCs \union LinkNodePCs
\* ... or it is inside CopyFile at all.
CopyPCs == AtWork \union {"dirLoop", "regAttrs", "retYES", "retNO"}
MovePCs == {"move", "moveExists", "moveGo"}
LinkPCs == {"link", "linkExists", "linkGo"}
\* The user has been asked about a target that stands in the way.
ExistsPCs == {"dirExists", "regExists", "newLinkExists", "moveExists", "linkExists"}
\* At work on the listed name FileList[idx].
Working == CopyPCs \union MovePCs \union LinkPCs \union {"copyDone", "moveDelete", "delete"}

\* Which operation is at which point, and where cur is.
Places ==
  /\ Point \in Working => idx > 0 /\ Top(cur) = FileList[idx]
  /\ Point \in Working \ CopyPCs => Len(cur) = 1
  /\ Point \in CopyPCs => op \in {"Copy", "Duplicate"} \/ (op = "Move" /\ ~sameFS)
  /\ Point \in MovePCs => op = "Move"
  /\ Point \in {"copyDone", "moveDelete"} => op = "Move" /\ ~sameFS
  /\ Point = "delete" => op = "Delete" \/ (op = "Move" /\ ~sameFS)
  /\ Point \in LinkPCs => op = "Link"

\* A directory is opened for its own contents.
Contents == \A d \in Node : pending[d] \subseteq Children(d)

\* The beginning and the end of a run.
Ends ==
  /\ pc \in {"boot", "start"} => idx = 0
  /\ pc = "wait" => cont \in Working \union {"next"}
  /\ cleaned => isStopped /\ pc \in {"report", "exit"}
  /\ result = "0" => ~isStopped /\ pc = "exit"

\* Nothing stands where its directory does not.
Standing(t) == \A m \in Node : \A n \in Under(m) : t[n] # "none" => t[m] # "none"
Trees == Standing(dst0) /\ (~cleaned => Standing(src) /\ Standing(dst))

\* The user has been asked before anything is done about an existing target.
Asked == Point \in ExistsPCs => "FileExists" \in told[cur]
\* Past the check for an existing target, none is there until the tool creates one.
Cleared ==
  /\ Point \in {"regCreate", "newLinkGo", "linkGo", "moveGo"} => dst[cur] = "none"
  /\ Point \in {"regOpen", "regLoop"} => dst[cur] = "part"
\* A move copies to where nothing old is left.
MoveFree ==
  op = "Move" /\ Point \in CopyPCs \union {"moveGo", "copyDone"} =>
    \A n \in Under(Top(cur)) : dst[n] # "old"

\* The loop over the list has come to the name n lies under; what it has not come
\* to is as it was.
Begun(n) == \E i \in 1..idx : FileList[i] = Top(n)
Untouched ==
  ~cleaned => \A n \in Node : ~Begun(n) =>
                src[n] = Source[n] /\ dst[n] = dst0[n] /\ told[n] = {}
\* Only Move and Delete touch the source, and Move not before the copy is made.
SourceKept ==
  /\ op \notin {"Move", "Delete"} => src = Source
  /\ Point \in CopyPCs \union MovePCs \union {"copyDone", "moveDelete"} =>
       \A n \in Under(Top(cur)) : src[n] = Source[n]

\* Within a file system a name is wholly at one end: rename(2) takes all or nothing.
Here(f) == \A n \in Under(f) : src[n] = Source[n] /\ (dst0[f] = "none" => dst[n] = "none")
Gone(f) == \A n \in Under(f) : src[n] = "none" /\ dst[n] = Source[n]
HereOrGone ==
  op = "Move" /\ sameFS /\ ~cleaned =>
    /\ \A f \in Range(FileList) : Here(f) \/ Gone(f)
    /\ Point \in MovePCs => Here(cur)
-----------------------------------------------------------------------------
(* Paths *)

\* A path lies under another if it begins with it.
LEMMA UnderIsPrefix ==
  ASSUME NEW n \in Node, NEW m \in Node
  PROVE  m \in Under(n) <=> Len(n) <= Len(m) /\ \A i \in 1..Len(n) : m[i] = n[i]
<1>1. n \in Seq(STRING) /\ m \in Seq(STRING) /\ Len(n) \in Nat /\ Len(m) \in Nat
  BY TreeAssumption
<1>2. ASSUME Len(n) <= Len(m)
      PROVE  SubSeq(m, 1, Len(n)) = n <=> \A i \in 1..Len(n) : m[i] = n[i]
  <2>1. /\ SubSeq(m, 1, Len(n)) \in Seq(STRING)
        /\ Len(SubSeq(m, 1, Len(n))) = Len(n)
        /\ \A i \in 1..Len(n) : SubSeq(m, 1, Len(n))[i] = m[i]
    BY <1>1, <1>2
  <2>2. QED
    BY <1>1, <2>1
<1>3. QED
  BY <1>1, <1>2 DEF Under

\* Being under is an order, linear above a path.
LEMMA UnderOrder ==
  /\ \A n \in Node : n \in Under(n) /\ Under(n) \subseteq Node
  /\ \A n, m, k \in Node : m \in Under(n) /\ k \in Under(m) => k \in Under(n)
  /\ \A n, m \in Node : m \in Under(n) /\ n \in Under(m) => m = n
  /\ \A n, m, k \in Node : k \in Under(n) /\ k \in Under(m) => n \in Under(m) \/ m \in Under(n)
  /\ \A n, m \in Node : m \in Up(n) <=> n \in Under(m)
<1>0. \A n \in Node : n \in Seq(STRING) /\ Len(n) \in Nat
  BY TreeAssumption
<1>1. \A n \in Node : n \in Under(n) /\ Under(n) \subseteq Node
  BY <1>0, UnderIsPrefix DEF Under
<1>2. ASSUME NEW n \in Node, NEW m \in Node, NEW k \in Node, m \in Under(n), k \in Under(m)
      PROVE  k \in Under(n)
  BY <1>0, <1>2, UnderIsPrefix
<1>3. ASSUME NEW n \in Node, NEW m \in Node, m \in Under(n), n \in Under(m)
      PROVE  m = n
  <2>1. Len(m) = Len(n) /\ \A i \in 1..Len(n) : m[i] = n[i]
    BY <1>0, <1>3, UnderIsPrefix
  <2>2. QED
    BY <1>0, <2>1
<1>4. ASSUME NEW n \in Node, NEW m \in Node, NEW k \in Node, k \in Under(n), k \in Under(m)
      PROVE  n \in Under(m) \/ m \in Under(n)
  BY <1>0, <1>4, UnderIsPrefix
<1>5. QED
  BY <1>1, <1>2, <1>3, <1>4 DEF Up

\* The paths of length k above a path.
LEMMA Prefixes ==
  ASSUME NEW n \in Node, NEW k \in 1..Len(n)
  PROVE  /\ SubSeq(n, 1, k) \in Seq(STRING) /\ Len(SubSeq(n, 1, k)) = k
         /\ \A i \in 1..k : SubSeq(n, 1, k)[i] = n[i]
<1>1. n \in Seq(STRING) /\ Len(n) \in Nat
  BY TreeAssumption
<1>2. QED
  BY <1>1

\* The parent of a nested path: it is the next path above, and the path is its child.
LEMMA ParentAbove ==
  ASSUME NEW n \in Node, Len(n) > 1
  PROVE  /\ Parent(n) \in Node /\ Len(Parent(n)) = Len(n) - 1
         /\ n \in Under(Parent(n)) /\ n # Parent(n) /\ n \in Children(Parent(n))
         /\ \A m \in Node : n \in Under(m) /\ m # n => Parent(n) \in Under(m)
<1>0. \A m \in Node : m \in Seq(STRING) /\ Len(m) \in Nat
  BY TreeAssumption
<1>1. Parent(n) \in Node
  BY TreeAssumption
<1>2. /\ Len(Parent(n)) = Len(n) - 1
      /\ \A i \in 1..(Len(n) - 1) : Parent(n)[i] = n[i]
  BY <1>0, Prefixes DEF Parent
<1>3. n \in Under(Parent(n))
  BY <1>0, <1>1, <1>2, UnderIsPrefix
<1>4. n # Parent(n)
  BY <1>0, <1>2
<1>5. n \in Children(Parent(n))
  BY <1>0, <1>2, <1>3 DEF Children
<1>6. ASSUME NEW m \in Node, n \in Under(m), m # n PROVE Parent(n) \in Under(m)
  <2>1. Len(m) <= Len(n) /\ \A i \in 1..Len(m) : n[i] = m[i]
    BY <1>6, UnderIsPrefix
  <2>2. Len(m) # Len(n)
    <3>1. SUFFICES ASSUME Len(m) = Len(n) PROVE FALSE
      OBVIOUS
    <3>2. m = n
      BY <1>0, <2>1, <3>1
    <3>3. QED
      BY <1>6, <3>2
  <2>3. QED
    BY <1>0, <1>1, <1>2, <2>1, <2>2, UnderIsPrefix
<1>7. QED
  BY <1>1, <1>2, <1>3, <1>4, <1>5, <1>6

\* A child lies directly under its parent, and children of one path are apart.
LEMMA ChildrenApart ==
  ASSUME NEW d \in Node, NEW c \in Children(d)
  PROVE  /\ c \in Node /\ Len(c) = Len(d) + 1 /\ Len(c) > 1 /\ Parent(c) = d
         /\ c \in Under(d) /\ c # d /\ d \notin Under(c)
         /\ \A b \in Children(d) : c \in Under(b) => b = c
         /\ \A m \in Node : c \in Under(m) => m = c \/ d \in Under(m)
<1>0. \A m \in Node : m \in Seq(STRING) /\ Len(m) \in Nat /\ Len(m) > 0
  BY TreeAssumption
<1>1. c \in Node /\ c \in Under(d) /\ Len(c) = Len(d) + 1
  BY DEF Children, Under
<1>2. Len(c) > 1 /\ c # d
  BY <1>0, <1>1
<1>3. Parent(c) = d
  <2>1. Len(Parent(c)) = Len(d) /\ Parent(c) \in Node
    BY <1>0, <1>1, <1>2, ParentAbove
  <2>2. \A i \in 1..Len(d) : Parent(c)[i] = c[i]
    BY <1>0, <1>1, <1>2, Prefixes DEF Parent
  <2>3. \A i \in 1..Len(d) : c[i] = d[i]
    BY <1>1, UnderIsPrefix
  <2>4. QED
    BY <1>0, <2>1, <2>2, <2>3
<1>4. d \notin Under(c)
  BY <1>1, <1>2, UnderOrder
<1>5. ASSUME NEW b \in Children(d), c \in Under(b) PROVE b = c
  <2>1. b \in Node /\ Len(b) = Len(c)
    BY <1>1 DEF Children, Under
  <2>2. \A i \in 1..Len(b) : c[i] = b[i]
    BY <1>1, <1>5, <2>1, UnderIsPrefix
  <2>3. QED
    BY <1>0, <1>1, <2>1, <2>2
<1>6. \A m \in Node : c \in Under(m) => m = c \/ d \in Under(m)
  BY <1>1, <1>2, <1>3, ParentAbove
<1>7. QED
  BY <1>1, <1>2, <1>3, <1>4, <1>5, <1>6
\* A nonempty set of numbers has a least one.
LEMMA LeastNumber ==
  ASSUME NEW S \in SUBSET Nat, S # {}
  PROVE  \E k \in S : \A j \in S : k <= j
<1>1. PICK k \in S : \A j \in S : ~ (<<j, k>> \in OpToRel(<, Nat))
  BY WFMin, NatLessThanWellFounded
<1>2. \A j \in S : ~(j < k)
  BY <1>1 DEF OpToRel
<1>3. QED
  BY <1>2

\* A set that holds the parents of its paths holds all paths above them.
LEMMA UpwardClosed ==
  ASSUME NEW T \in SUBSET Node, \A m \in T : Len(m) > 1 => Parent(m) \in T
  PROVE  \A n \in T : \A m \in Node : n \in Under(m) => m \in T
<1>0. \A m \in Node : m \in Seq(STRING) /\ Len(m) \in Nat /\ Len(m) > 0
  BY TreeAssumption
<1> SUFFICES ASSUME NEW n \in T, NEW m \in Node, n \in Under(m) PROVE m \in T
  OBVIOUS
<1> DEFINE Between == {x \in T : n \in Under(x) /\ x \in Under(m)}
           Lengths == {Len(x) : x \in Between}
<1>1. n \in Between
  BY UnderOrder
<1>2. Lengths \in SUBSET Nat /\ Lengths # {}
  BY <1>0, <1>1
<1>3. PICK k \in Lengths : \A j \in Lengths : k <= j
  <2> HIDE DEF Lengths
  <2>1. QED
    BY <1>2, LeastNumber
<1>4. PICK x \in Between : Len(x) = k
  OBVIOUS
<1>5. x \in Node /\ x \in T /\ n \in Under(x) /\ x \in Under(m)
  OBVIOUS
<1>6. CASE x = m
  BY <1>5, <1>6
<1>7. CASE x # m
  <2>1. Len(x) > 1
    <3>1. Len(m) <= Len(x) /\ ~(x = m)
      BY <1>5, <1>7, UnderIsPrefix
    <3>2. Len(m) # Len(x)
      <4>1. SUFFICES ASSUME Len(m) = Len(x) PROVE FALSE
        OBVIOUS
      <4>2. m \in Under(x)
        BY <1>0, <1>5, <4>1, UnderIsPrefix
      <4>3. QED
        BY <1>5, <1>7, <4>2, UnderOrder
    <3>3. QED
      BY <1>0, <1>5, <3>1, <3>2
  <2>2. /\ Parent(x) \in T /\ Parent(x) \in Node /\ Parent(x) \in Under(m)
        /\ x \in Under(Parent(x)) /\ Len(Parent(x)) = Len(x) - 1
    BY <1>5, <1>7, <2>1, ParentAbove
  <2>3. n \in Under(Parent(x))
    BY <1>5, <2>2, UnderOrder
  <2>4. Len(Parent(x)) \in Lengths
    BY <2>2, <2>3
  <2>5. k <= Len(Parent(x)) /\ Len(x) = k /\ k \in Nat
    BY <1>0, <1>2, <1>3, <1>4, <1>5, <2>4
  <2>6. QED
    BY <2>2, <2>5
<1>8. QED
  BY <1>6, <1>7

\* A path has one name or more.
LEMMA NodeLength == \A n \in Node : Len(n) = 1 \/ Len(n) > 1
<1>1. \A n \in Node : Len(n) \in Nat /\ Len(n) > 0
  BY TreeAssumption
<1>2. \A k \in Nat : k > 0 => k = 1 \/ k > 1
  OBVIOUS
<1>3. QED
  BY <1>1, <1>2

\* The first name of a path, alone, is the listed path it lies under.
LEMMA TopOf ==
  ASSUME NEW n \in Node
  PROVE  /\ Top(n) \in Node /\ Len(Top(n)) = 1 /\ n \in Under(Top(n))
         /\ \A f \in Node : Len(f) = 1 /\ n \in Under(f) => f = Top(n)
         /\ \A m \in Under(n) : Top(m) = Top(n)
         /\ Len(n) = 1 => Top(n) = n
<1>0. \A m \in Node : m \in Seq(STRING) /\ Len(m) \in Nat /\ Len(m) > 0
  BY TreeAssumption
<1> DEFINE Above == {m \in Node : n \in Under(m)}
           Lengths == {Len(m) : m \in Above}
<1>1. \A m \in Node : m \in Above /\ Len(m) > 1 => Parent(m) \in Above
  BY ParentAbove, UnderOrder
<1>2. n \in Above /\ Lengths \in SUBSET Nat /\ Lengths # {}
  BY <1>0, UnderOrder
<1>3. PICK k \in Lengths : \A j \in Lengths : k <= j
  <2> HIDE DEF Lengths
  <2>1. QED
    BY <1>2, LeastNumber
<1>4. PICK f \in Above : Len(f) = k
  OBVIOUS
<1>5. Len(f) = 1
  <2>1. SUFFICES ASSUME Len(f) > 1 PROVE FALSE
    BY <1>0, <1>4
  <2>2. Len(Parent(f)) \in Lengths /\ Len(Parent(f)) = Len(f) - 1
    BY <1>1, <1>4, <2>1, ParentAbove
  <2>3. k <= Len(Parent(f)) /\ k \in Nat
    BY <1>2, <1>3, <2>2
  <2>4. QED
    BY <1>4, <2>2, <2>3
<1>6. ASSUME NEW g \in Node, Len(g) = 1, NEW m \in Node, m \in Under(g) PROVE g = Top(m)
  <2>1. Len(m) >= 1 /\ m[1] = g[1]
    BY <1>0, <1>6, UnderIsPrefix
  <2>2. Len(Top(m)) = 1 /\ Top(m)[1] = m[1] /\ Top(m) \in Seq(STRING)
    BY <1>0, <1>6, Prefixes DEF Top
  <2>3. QED
    BY <1>0, <1>6, <2>1, <2>2
<1>7. f = Top(n)
  BY <1>4, <1>5, <1>6
<1>8. \A m \in Under(n) : Top(m) = Top(n)
  BY <1>4, <1>5, <1>6, <1>7, UnderOrder
<1>9. Len(n) = 1 => Top(n) = n
  BY <1>6, UnderOrder
<1>10. QED
  BY <1>4, <1>5, <1>6, <1>7, <1>8, <1>9

\* Nothing lies above a path of one name.
LEMMA TopAlone ==
  ASSUME NEW n \in Node, Len(n) = 1, NEW m \in Node, n \in Under(m)
  PROVE  m = n
<1>1. Top(n) = Top(m) /\ Top(n) = n /\ m \in Under(n)
  BY TopOf, UnderOrder
<1>2. QED
  BY <1>1, UnderOrder

\* Below a path there is a next one on the way to each path under it.
LEMMA NextBelow ==
  ASSUME NEW d \in Node, NEW n \in Under(d), n # d
  PROVE  \E c \in Children(d) : n \in Under(c)
<1>0. n \in Node /\ \A m \in Node : m \in Seq(STRING) /\ Len(m) \in Nat /\ Len(m) > 0
  BY TreeAssumption, UnderOrder
<1> DEFINE Between == {x \in Node : n \in Under(x) /\ x \in Under(d) /\ x # d}
           Lengths == {Len(x) : x \in Between}
<1>1. n \in Between
  BY <1>0, UnderOrder
<1>2. Lengths \in SUBSET Nat /\ Lengths # {}
  BY <1>0, <1>1
<1>3. PICK k \in Lengths : \A j \in Lengths : k <= j
  <2> HIDE DEF Lengths
  <2>1. QED
    BY <1>2, LeastNumber
<1>4. PICK x \in Between : Len(x) = k
  OBVIOUS
<1>5. x \in Node /\ n \in Under(x) /\ x \in Under(d) /\ x # d
  OBVIOUS
<1> HIDE DEF Between, Lengths
<1>6. Len(x) > 1
  <2>1. Len(x) \in Nat /\ Len(x) > 0 /\ Len(d) \in Nat /\ Len(d) > 0 /\ Len(d) <= Len(x)
    BY <1>0, <1>5, UnderIsPrefix
  <2>2. Len(x) # 1
    <3>1. SUFFICES ASSUME Len(x) = 1 PROVE FALSE
      OBVIOUS
    <3>2. Len(d) = 1
      BY <2>1, <3>1
    <3>3. QED
      BY <1>5, <3>1, <3>2, TopOf
  <2>3. \A l \in Nat : l > 0 /\ l # 1 => l > 1
    OBVIOUS
  <2>4. QED
    BY <2>1, <2>2, <2>3
<1>7. /\ Parent(x) \in Node /\ Parent(x) \in Under(d) /\ x \in Under(Parent(x))
      /\ Len(Parent(x)) = Len(x) - 1 /\ x \in Children(Parent(x))
  BY <1>5, <1>6, ParentAbove
<1>8. n \in Under(Parent(x))
  BY <1>0, <1>5, <1>7, UnderOrder
<1>9. Parent(x) = d
  <2>1. SUFFICES ASSUME Parent(x) # d PROVE FALSE
    OBVIOUS
  <2>2. Len(Parent(x)) \in Lengths
    BY <1>7, <1>8, <2>1 DEF Between, Lengths
  <2>3. k <= Len(Parent(x)) /\ k \in Nat
    BY <1>2, <1>3, <2>2
  <2>4. QED
    BY <1>4, <1>7, <2>3
<1>10. QED
  BY <1>5, <1>7, <1>9

-----------------------------------------------------------------------------
(* Trees *)

\* The source is a tree: what holds something is a directory.
LEMMA SourceTree ==
  /\ Source \in [Node -> {"none", "orig", "dir"}]
  /\ Standing(Source)
  /\ \A m \in Node : \A n \in Under(m) : Source[n] # "none" /\ n # m => Kind[m] = "dir"
<1>1. Source \in [Node -> {"none", "orig", "dir"}]
  BY DEF Source
<1>2. Standing(Source)
  <2> DEFINE T == {n \in Node : Source[n] # "none"}
  <2>1. ASSUME NEW n \in T, Len(n) > 1 PROVE Parent(n) \in T
    <3>1. n \in Node /\ ~Away(n) /\ Kind[n] # "absent"
      BY DEF Source
    <3>2. /\ Parent(n) \in Node /\ n \in Under(Parent(n)) /\ n # Parent(n)
      BY <2>1, <3>1, ParentAbove
    <3>3. Kind[Parent(n)] = "dir"
      BY <2>1, <3>1, <3>2, TreeAssumption DEF Away
    <3>4. ASSUME Away(Parent(n)) PROVE FALSE
      <4>1. PICK m \in Node : m # Parent(n) /\ Parent(n) \in Under(m) /\ Kind[m] = "link"
        BY <3>4 DEF Away
      <4>2. n \in Under(m)
        BY <3>1, <3>2, <4>1, UnderOrder
      <4>3. m # n
        BY <3>1, <3>2, <4>1, UnderOrder
      <4>4. QED
        BY <3>1, <4>1, <4>2, <4>3 DEF Away
    <3>5. QED
      BY <3>2, <3>3, <3>4 DEF Source
  <2>2. \A n \in T : \A m \in Node : n \in Under(m) => m \in T
    <3> HIDE DEF T
    <3>1. T \in SUBSET Node
      BY DEF T
    <3>2. QED
      BY <2>1, <3>1, UpwardClosed
  <2>3. QED
    BY <2>2, UnderOrder DEF Standing
<1>3. ASSUME NEW m \in Node, NEW n \in Under(m), Source[n] # "none", n # m
      PROVE  Kind[m] = "dir"
  <2>1. PICK c \in Children(m) : n \in Under(c)
    BY <1>3, NextBelow
  <2>2. c \in Node /\ Len(c) > 1 /\ Parent(c) = m
    BY <2>1, ChildrenApart
  <2>3. Source[c] # "none"
    BY <1>2, <1>3, <2>1, <2>2 DEF Standing
  <2>4. Kind[c] # "absent" /\ ~Away(c)
    BY <2>2, <2>3 DEF Source
  <2>5. Kind[m] # "link"
    BY <2>1, <2>2, <2>4, ChildrenApart DEF Away
  <2>6. QED
    BY <2>2, <2>4, <2>5, TreeAssumption
<1>4. QED
  BY <1>1, <1>2, <1>3

\* What was at the destination is a tree too.
LEMMA OldStands == \A t \in OldTrees : Standing(t)
<1> SUFFICES ASSUME NEW t \in OldTrees PROVE Standing(t)
  OBVIOUS
<1> DEFINE T == {n \in Node : t[n] # "none"}
<1>1. \A n \in T : Len(n) > 1 => Parent(n) \in T
  BY TreeAssumption DEF OldTrees
<1>2. \A n \in T : \A m \in Node : n \in Under(m) => m \in T
  <2> HIDE DEF T
  <2>1. T \in SUBSET Node
    BY DEF T
  <2>2. QED
    BY <1>1, <2>1, UpwardClosed
<1>3. QED
  BY <1>2, UnderOrder DEF Standing

\* Removing whole subtrees leaves a tree.
LEMMA WithoutStands ==
  ASSUME NEW t, Standing(t), NEW gone \in SUBSET Node, \A m \in gone : Under(m) \subseteq gone
  PROVE  Standing(Without(t, gone))
BY UnderOrder DEF Standing, Without

\* What a failing removal leaves holds the directories of what is left in it.
LEMMA LeftoversHang ==
  ASSUME NEW n \in Node, NEW left \in Leftovers(n)
  PROVE  /\ n \in left /\ left \subseteq Under(n)
         /\ \A m \in Under(n) \ left : Under(m) \subseteq Under(n) \ left
<1>1. /\ left \subseteq Under(n) /\ n \in left
      /\ \A m \in left : m # n => Parent(m) \in left
  BY DEF Leftovers
<1> DEFINE T == left \union {m \in Node : n \in Under(m)}
<1>2. T \in SUBSET Node
  BY <1>1, UnderOrder
<1>3. \A m \in T : Len(m) > 1 => Parent(m) \in T
  BY <1>1, <1>2, ParentAbove, UnderOrder
<1>4. \A x \in T : \A m \in Node : x \in Under(m) => m \in T
  <2> HIDE DEF T
  <2>1. QED
    BY <1>2, <1>3, UpwardClosed
<1>5. ASSUME NEW m \in Under(n), m \notin left, NEW x \in Under(m)
      PROVE  x \in Under(n) /\ x \notin left
  <2>1. x \in Node /\ m \in Node /\ x \in Under(n)
    BY <1>5, UnderOrder
  <2>2. SUFFICES ASSUME x \in left PROVE FALSE
    BY <2>1
  <2>3. m \in T
    BY <1>4, <1>5, <2>1, <2>2
  <2>4. m = n
    BY <1>5, <2>1, <2>3, UnderOrder
  <2>5. QED
    BY <1>1, <1>5, <2>4
<1>6. QED
  BY <1>1, <1>5

\* A cleanup takes whole subtrees as well, or leaves the directories.
LEMMA RemovedListed ==
  ASSUME NEW files \in SUBSET Node, NEW left \in SUBSET UNION {Under(f) : f \in files},
         \A m \in left : Len(m) > 1 => Parent(m) \in left
  PROVE  LET gone == (UNION {Under(f) : f \in files}) \ left
         IN  gone \in SUBSET Node /\ \A m \in gone : Under(m) \subseteq gone
<1> DEFINE all == UNION {Under(f) : f \in files}
<1>1. left \in SUBSET Node /\ all \in SUBSET Node
  BY UnderOrder
<1>2. \A x \in left : \A m \in Node : x \in Under(m) => m \in left
  BY <1>1, UpwardClosed
<1>3. ASSUME NEW m \in all, NEW x \in Under(m) PROVE x \in all
  <2>1. PICK f \in files : m \in Under(f)
    BY <1>3
  <2>2. x \in Under(f)
    BY <2>1, <1>3, UnderOrder
  <2>3. QED
    BY <2>2
<1>4. ASSUME NEW m \in all \ left, NEW x \in Under(m) PROVE x \in all \ left
  <2>1. x \in all /\ m \in Node
    BY <1>1, <1>3, <1>4
  <2>2. x \notin left
    BY <1>2, <1>4, <2>1
  <2>3. QED
    BY <2>1, <2>2
<1>5. all \ left \in SUBSET Node /\ \A m \in all \ left : Under(m) \subseteq all \ left
  <2> HIDE DEF all
  <2>1. QED
    BY <1>1, <1>4
<1>6. QED
  BY <1>5
-----------------------------------------------------------------------------
(* Where the tool is *)

\* Directories are opened for their own contents.
LEMMA ContentsStep == DataTypes /\ Contents /\ [Next]_vars => Contents'
<1> SUFFICES ASSUME DataTypes, Contents, [Next]_vars PROVE Contents'
  OBVIOUS
<1>1. CASE pending' = pending
  BY <1>1 DEF Contents
<1>2. CASE DirList
  BY <1>2 DEF DirList, DataTypes, Contents
<1>3. CASE DirNext
  BY <1>3 DEF DirNext, DataTypes, Contents
<1>4. QED
  BY <1>1, <1>2, <1>3 DEF Next, ToolStep, CopyStep, MoveStep, vars, walk, InstallHandler, Start,
     NextFile, EndOfFiles, Finish, Report, CopyFile, CopyDirectory, DirExists, DirEnd, CopyRegular,
     RegExists, RegCreate, RegOpen, RegLoop, RegSpinEnds, RegAttrs, DuplicateSymbolicLink,
     CopySymbolicLink, SymlinkNoTarget, NewLink, NewLinkExists, NewLinkGo, Return, Move, MoveExists,
     MoveRename, MoveByCopy, CopyDone, MoveDelete, Delete, DeleteEnd, Link, LinkExists, LinkGo,
     Answer, AnswerStop, Interrupt, Killed, Done

\* Each operation keeps to its own points, and to the listed name it is at.
LEMMA PlacesStep == DataTypes /\ Contents /\ Places /\ Ends /\ [Next]_vars => Places'
<1> SUFFICES ASSUME DataTypes, Contents, Places, Ends, [Next]_vars PROVE Places'
  OBVIOUS
<1>a. cur \in Node /\ idx \in 0..Len(FileList) /\ op \in Operation /\ pc \in PCs /\ cont \in WorkPCs
  BY DEF DataTypes
<1>b. \A m \in pending[cur] : m \in Node /\ Top(m) = Top(cur)
  BY <1>a, ChildrenApart, TopOf DEF Contents
<1>c. Len(cur) > 1 => Parent(cur) \in Node /\ Top(Parent(cur)) = Top(cur)
  BY <1>a, ParentAbove, TopOf
<1>d. /\ Len(FileList) \in Nat
      /\ \A i \in 1..Len(FileList) :
           FileList[i] \in Node /\ Len(FileList[i]) = 1 /\ Top(FileList[i]) = FileList[i]
  BY TreeAssumption, TopOf
<1>e. Len(cur) = 1 \/ Len(cur) > 1
  BY <1>a, NodeLength
<1> USE <1>a DEF Places, Ends, Point, Working, CopyPCs, AtWork, RegPCs, LinkNodePCs, MovePCs,
        LinkPCs, WorkPCs, PCs, Operation, Go, args, fs, comm, walk, fin

<1>1. CASE InstallHandler
  BY <1>1 DEF InstallHandler
<1>2. CASE Start
  BY <1>2 DEF Start
<1>3. CASE NextFile
  BY <1>3, <1>d DEF NextFile, FirstStep, More
<1>4. CASE EndOfFiles
  BY <1>4 DEF EndOfFiles
<1>5. CASE Finish
  BY <1>5 DEF Finish, CleanUp
<1>6. CASE Report
  BY <1>6 DEF Report
<1>7. CASE CopyFile
  BY <1>7 DEF CopyFile, Ask, Seen
<1>8. CASE CopyDirectory
  BY <1>8 DEF CopyDirectory, Ask, Create
<1>9. CASE DirExists
  BY <1>9 DEF DirExists, DropTarget, Ask
<1>10. CASE DirList
  BY <1>10 DEF DirList, Ask
<1>11. CASE DirNext
  BY <1>11, <1>b DEF DirNext
<1>12. CASE DirEnd
  BY <1>12 DEF DirEnd, Ask
<1>13. CASE CopyRegular
  BY <1>13 DEF CopyRegular, Ask
<1>14. CASE RegExists
  BY <1>14 DEF RegExists, DropTarget, Ask
<1>15. CASE RegCreate
  BY <1>15 DEF RegCreate, Create, Ask
<1>16. CASE RegOpen
  BY <1>16 DEF RegOpen, Ask
<1>17. CASE RegLoop
  BY <1>17 DEF RegLoop
<1>18. CASE RegSpinEnds
  BY <1>18 DEF RegSpinEnds
<1>19. CASE RegAttrs
  BY <1>19 DEF RegAttrs, Ask
<1>20. CASE DuplicateSymbolicLink
  BY <1>20 DEF DuplicateSymbolicLink, Ask, FollowSolution
<1>21. CASE CopySymbolicLink
  BY <1>21 DEF CopySymbolicLink, Ask, FollowSolution
<1>22. CASE SymlinkNoTarget
  BY <1>22 DEF SymlinkNoTarget, FollowSolution
<1>23. CASE NewLink
  BY <1>23 DEF NewLink, Ask
<1>24. CASE NewLinkExists
  BY <1>24 DEF NewLinkExists, DropTarget, Ask
<1>25. CASE NewLinkGo
  BY <1>25 DEF NewLinkGo, Create, Ask
<1>26. CASE Return
  <2>1. CASE Len(cur) > 1
    BY <1>26, <2>1, <1>c DEF Return
  <2>2. CASE ~(Len(cur) > 1)
    <3>1. Len(cur) = 1
      BY <1>e, <2>2
    <3>2. QED
      BY <1>26, <2>2, <3>1 DEF Return
  <2>3. QED
    BY <2>1, <2>2
<1>27. CASE Move
  BY <1>27 DEF Move, Ask
<1>28. CASE MoveExists
  BY <1>28 DEF MoveExists, DropTarget, Ask
<1>29. CASE MoveRename
  BY <1>29 DEF MoveRename, Ask
<1>30. CASE MoveByCopy
  BY <1>30 DEF MoveByCopy
<1>31. CASE CopyDone
  BY <1>31 DEF CopyDone
<1>32. CASE MoveDelete
  BY <1>32 DEF MoveDelete
<1>33. CASE Delete
  BY <1>33 DEF Delete, Ask
<1>34. CASE DeleteEnd
  BY <1>34 DEF DeleteEnd
<1>35. CASE Link
  BY <1>35 DEF Link, Ask
<1>36. CASE LinkExists
  BY <1>36 DEF LinkExists, DropTarget, Ask
<1>37. CASE LinkGo
  BY <1>37 DEF LinkGo, Create, Ask
<1>38. CASE Answer
  BY <1>38 DEF Answer
<1>39. CASE AnswerStop
  BY <1>39 DEF AnswerStop
<1>40. CASE Interrupt
  BY <1>40 DEF Interrupt
<1>41. CASE Killed
  BY <1>41 DEF Killed
<1>42. CASE Done
  BY <1>42 DEF Done, vars
<1>43. CASE UNCHANGED vars
  BY <1>43 DEF vars
<1>44. QED
  BY <1>1, <1>2, <1>3, <1>4, <1>5, <1>6, <1>7, <1>8, <1>9, <1>10, <1>11, <1>12, <1>13, <1>14,
     <1>15, <1>16, <1>17, <1>18, <1>19, <1>20, <1>21, <1>22, <1>23, <1>24, <1>25, <1>26, <1>27,
     <1>28, <1>29, <1>30, <1>31, <1>32, <1>33, <1>34, <1>35, <1>36, <1>37, <1>38, <1>39, <1>40,
     <1>41, <1>42, <1>43 DEF Next, ToolStep, CopyStep, MoveStep


\* The beginning and the end are as they should be.
LEMMA EndsStep == TypeOK /\ Places /\ Ends /\ [Next]_vars => Ends'
<1> SUFFICES ASSUME TypeOK, Places, Ends, [Next]_vars PROVE Ends'
  OBVIOUS
<1>a. /\ pc \in PCs /\ cont \in WorkPCs /\ isStopped \in BOOLEAN /\ makeCleanupOnStop \in BOOLEAN
      /\ op \in Operation /\ idx \in Nat
  BY TreeAssumption DEF TypeOK, DataTypes, FlagTypes
<1> USE <1>a DEF Ends, Point, Working, CopyPCs, AtWork, RegPCs, LinkNodePCs, MovePCs, LinkPCs,
        WorkPCs, PCs, Operation, Go, args, fs, comm, walk, fin

<1>1. CASE InstallHandler
  BY <1>1 DEF InstallHandler
<1>2. CASE Start
  BY <1>2 DEF Start
<1>3. CASE NextFile
  BY <1>3 DEF NextFile, FirstStep, More
<1>4. CASE EndOfFiles
  BY <1>4 DEF EndOfFiles
<1>5. CASE Finish
  BY <1>5 DEF Finish, CleanUp
<1>6. CASE Report
  BY <1>6 DEF Report
<1>7. CASE CopyFile
  BY <1>7 DEF CopyFile, Ask, Seen
<1>8. CASE CopyDirectory
  BY <1>8 DEF CopyDirectory, Ask, Create
<1>9. CASE DirExists
  BY <1>9 DEF DirExists, DropTarget, Ask
<1>10. CASE DirList
  BY <1>10 DEF DirList, Ask
<1>11. CASE DirNext
  BY <1>11 DEF DirNext
<1>12. CASE DirEnd
  BY <1>12 DEF DirEnd, Ask
<1>13. CASE CopyRegular
  BY <1>13 DEF CopyRegular, Ask
<1>14. CASE RegExists
  BY <1>14 DEF RegExists, DropTarget, Ask
<1>15. CASE RegCreate
  BY <1>15 DEF RegCreate, Create, Ask
<1>16. CASE RegOpen
  BY <1>16 DEF RegOpen, Ask
<1>17. CASE RegLoop
  BY <1>17 DEF RegLoop
<1>18. CASE RegSpinEnds
  BY <1>18 DEF RegSpinEnds
<1>19. CASE RegAttrs
  BY <1>19 DEF RegAttrs, Ask
<1>20. CASE DuplicateSymbolicLink
  BY <1>20 DEF DuplicateSymbolicLink, Ask, FollowSolution
<1>21. CASE CopySymbolicLink
  BY <1>21 DEF CopySymbolicLink, Ask, FollowSolution
<1>22. CASE SymlinkNoTarget
  BY <1>22 DEF SymlinkNoTarget, FollowSolution
<1>23. CASE NewLink
  BY <1>23 DEF NewLink, Ask
<1>24. CASE NewLinkExists
  BY <1>24 DEF NewLinkExists, DropTarget, Ask
<1>25. CASE NewLinkGo
  BY <1>25 DEF NewLinkGo, Create, Ask
<1>26. CASE Return
  BY <1>26 DEF Return
<1>27. CASE Move
  BY <1>27 DEF Move, Ask
<1>28. CASE MoveExists
  BY <1>28 DEF MoveExists, DropTarget, Ask
<1>29. CASE MoveRename
  BY <1>29 DEF MoveRename, Ask
<1>30. CASE MoveByCopy
  BY <1>30 DEF MoveByCopy
<1>31. CASE CopyDone
  BY <1>31 DEF CopyDone
<1>32. CASE MoveDelete
  BY <1>32 DEF MoveDelete
<1>33. CASE Delete
  BY <1>33 DEF Delete, Ask
<1>34. CASE DeleteEnd
  BY <1>34 DEF DeleteEnd
<1>35. CASE Link
  BY <1>35 DEF Link, Ask
<1>36. CASE LinkExists
  BY <1>36 DEF LinkExists, DropTarget, Ask
<1>37. CASE LinkGo
  BY <1>37 DEF LinkGo, Create, Ask
<1>38. CASE Answer
  BY <1>38 DEF Answer
<1>39. CASE AnswerStop
  BY <1>39 DEF AnswerStop
<1>40. CASE Interrupt
  BY <1>40 DEF Interrupt
<1>41. CASE Killed
  BY <1>41 DEF Killed
<1>42. CASE Done
  BY <1>42 DEF Done, vars
<1>43. CASE UNCHANGED vars
  BY <1>43 DEF vars
<1>44. QED
  BY <1>1, <1>2, <1>3, <1>4, <1>5, <1>6, <1>7, <1>8, <1>9, <1>10, <1>11, <1>12, <1>13, <1>14,
     <1>15, <1>16, <1>17, <1>18, <1>19, <1>20, <1>21, <1>22, <1>23, <1>24, <1>25, <1>26, <1>27,
     <1>28, <1>29, <1>30, <1>31, <1>32, <1>33, <1>34, <1>35, <1>36, <1>37, <1>38, <1>39, <1>40,
     <1>41, <1>42, <1>43 DEF Next, ToolStep, CopyStep, MoveStep
-----------------------------------------------------------------------------
(* What stands at the destination *)

\* Only these steps touch a directory.
FilesMove == \/ Finish \/ CopyDirectory \/ DirExists \/ RegExists \/ RegCreate \/ RegLoop
             \/ NewLinkExists \/ NewLinkGo \/ MoveExists \/ MoveRename \/ CopyDone \/ Delete
             \/ LinkExists \/ LinkGo

\* The other steps leave both as they are.
LEMMA FilesChange == [Next]_vars => FilesMove \/ (UNCHANGED fs /\ cleaned' = cleaned)
BY DEF FilesMove, Next, ToolStep, CopyStep, MoveStep, vars, fin, InstallHandler, Start,
   NextFile, EndOfFiles, Report, CopyFile, DirList, DirNext, DirEnd, CopyRegular,
   RegOpen, RegSpinEnds, RegAttrs, DuplicateSymbolicLink, CopySymbolicLink, SymlinkNoTarget,
   NewLink, Return, Move, MoveByCopy, MoveDelete, DeleteEnd, Link, Answer, AnswerStop, Interrupt,
   Killed, Done

\* The arguments stay as they are.
LEMMA ArgsStay == [Next]_vars => op' = op /\ sameFS' = sameFS /\ dst0' = dst0
BY DEF args, Next, ToolStep, CopyStep, MoveStep, vars, InstallHandler, Start,
   NextFile, EndOfFiles, Finish, Report, CopyFile, CopyDirectory, DirExists, DirList, DirNext,
   DirEnd,
   CopyRegular, RegExists, RegCreate, RegOpen, RegLoop, RegSpinEnds, RegAttrs,
   DuplicateSymbolicLink,
   CopySymbolicLink, SymlinkNoTarget, NewLink, NewLinkExists, NewLinkGo, Return, Move, MoveExists,
   MoveRename, MoveByCopy, CopyDone, MoveDelete, Delete, DeleteEnd, Link, LinkExists, LinkGo,
   Answer, AnswerStop, Interrupt, Killed, Done

\* What the user was told stays told.
LEMMA ToldGrows == DataTypes /\ [Next]_vars => \A n \in Node : told[n] \subseteq told'[n]
<1> SUFFICES ASSUME DataTypes, [Next]_vars PROVE \A n \in Node : told[n] \subseteq told'[n]
  OBVIOUS
<1>a. \A n \in Node, p \in Problem : [told EXCEPT ![n] = @ \union {p}] \in [Node -> SUBSET Problem]
  BY DEF DataTypes
<1> USE DEF DataTypes, Problem, Go, comm

<1>1. CASE InstallHandler
  BY <1>1 DEF InstallHandler
<1>2. CASE Start
  BY <1>2 DEF Start
<1>3. CASE NextFile
  BY <1>3 DEF NextFile, FirstStep, More
<1>4. CASE EndOfFiles
  BY <1>4 DEF EndOfFiles
<1>5. CASE Finish
  BY <1>5 DEF Finish, CleanUp
<1>6. CASE Report
  BY <1>6 DEF Report
<1>7. CASE CopyFile
  BY <1>7 DEF CopyFile, Ask, Seen
<1>8. CASE CopyDirectory
  BY <1>8 DEF CopyDirectory, Ask, Create
<1>9. CASE DirExists
  BY <1>9 DEF DirExists, DropTarget, Ask
<1>10. CASE DirList
  BY <1>10 DEF DirList, Ask
<1>11. CASE DirNext
  BY <1>11 DEF DirNext
<1>12. CASE DirEnd
  BY <1>12 DEF DirEnd, Ask
<1>13. CASE CopyRegular
  BY <1>13 DEF CopyRegular, Ask
<1>14. CASE RegExists
  BY <1>14 DEF RegExists, DropTarget, Ask
<1>15. CASE RegCreate
  BY <1>15 DEF RegCreate, Create, Ask
<1>16. CASE RegOpen
  BY <1>16 DEF RegOpen, Ask
<1>17. CASE RegLoop
  BY <1>17 DEF RegLoop
<1>18. CASE RegSpinEnds
  BY <1>18 DEF RegSpinEnds
<1>19. CASE RegAttrs
  BY <1>19 DEF RegAttrs, Ask
<1>20. CASE DuplicateSymbolicLink
  BY <1>20 DEF DuplicateSymbolicLink, Ask, FollowSolution
<1>21. CASE CopySymbolicLink
  BY <1>21 DEF CopySymbolicLink, Ask, FollowSolution
<1>22. CASE SymlinkNoTarget
  BY <1>22 DEF SymlinkNoTarget, FollowSolution
<1>23. CASE NewLink
  BY <1>23 DEF NewLink, Ask
<1>24. CASE NewLinkExists
  BY <1>24 DEF NewLinkExists, DropTarget, Ask
<1>25. CASE NewLinkGo
  BY <1>25 DEF NewLinkGo, Create, Ask
<1>26. CASE Return
  BY <1>26 DEF Return
<1>27. CASE Move
  BY <1>27 DEF Move, Ask
<1>28. CASE MoveExists
  BY <1>28 DEF MoveExists, DropTarget, Ask
<1>29. CASE MoveRename
  BY <1>29 DEF MoveRename, Ask
<1>30. CASE MoveByCopy
  BY <1>30 DEF MoveByCopy
<1>31. CASE CopyDone
  BY <1>31 DEF CopyDone
<1>32. CASE MoveDelete
  BY <1>32 DEF MoveDelete
<1>33. CASE Delete
  BY <1>33, PathsInTree DEF Delete, Ask, Removable
<1>34. CASE DeleteEnd
  BY <1>34 DEF DeleteEnd
<1>35. CASE Link
  BY <1>35 DEF Link, Ask
<1>36. CASE LinkExists
  BY <1>36 DEF LinkExists, DropTarget, Ask
<1>37. CASE LinkGo
  BY <1>37 DEF LinkGo, Create, Ask
<1>38. CASE Answer
  BY <1>38 DEF Answer
<1>39. CASE AnswerStop
  BY <1>39 DEF AnswerStop
<1>40. CASE Interrupt
  BY <1>40 DEF Interrupt
<1>41. CASE Killed
  BY <1>41 DEF Killed
<1>42. CASE Done
  BY <1>42 DEF Done, vars
<1>43. CASE UNCHANGED vars
  BY <1>43 DEF vars
<1>44. QED
  BY <1>1, <1>2, <1>3, <1>4, <1>5, <1>6, <1>7, <1>8, <1>9, <1>10, <1>11, <1>12, <1>13, <1>14,
     <1>15, <1>16, <1>17, <1>18, <1>19, <1>20, <1>21, <1>22, <1>23, <1>24, <1>25, <1>26, <1>27,
     <1>28, <1>29, <1>30, <1>31, <1>32, <1>33, <1>34, <1>35, <1>36, <1>37, <1>38, <1>39, <1>40,
     <1>41, <1>42, <1>43 DEF Next, ToolStep, CopyStep, MoveStep


\* Removing a target, wholly or in part, leaves a tree.
LEMMA Dropped ==
  ASSUME DataTypes, NEW k, NEW p, NEW f, DropTarget(k, p, f)
  PROVE  \E gone \in SUBSET Under(cur) :
           /\ dst' = Without(dst, gone)
           /\ \A m \in gone : Under(m) \subseteq gone
           /\ (Go(k) /\ gone = Under(cur)) \/ Ask(cur, p, f)
<1>1. cur \in Node
  BY DEF DataTypes
<1>2. CASE dst' = Without(dst, Under(cur)) /\ Go(k)
  BY <1>1, <1>2, UnderOrder
<1>3. CASE /\ \E left \in Leftovers(cur) : dst' = Without(dst, Under(cur) \ left)
           /\ Ask(cur, p, f)
  <2>1. PICK left \in Leftovers(cur) : dst' = Without(dst, Under(cur) \ left)
    BY <1>3
  <2>2. \A m \in Under(cur) \ left : Under(m) \subseteq Under(cur) \ left
    BY <1>1, LeftoversHang
  <2>3. QED
    BY <1>3, <2>1, <2>2
<1>4. QED
  BY <1>2, <1>3 DEF DropTarget

\* A cleanup by removal takes subtrees of the listed names, all of them if none fails.
LEMMA Unlisted ==
  ASSUME NEW files \in SUBSET Node, RemoveListed(files)
  PROVE  \E gone \in SUBSET Node :
           /\ dst' = Without(dst, gone) /\ src' = src
           /\ \A m \in gone : Under(m) \subseteq gone
           /\ gone \subseteq UNION {Under(f) : f \in files}
           /\ "remove" \notin Faults => gone = UNION {Under(f) : f \in files}
<1> DEFINE all == UNION {Under(f) : f \in files}
<1>1. PICK left \in SUBSET all :
        /\ left # {} => "remove" \in Faults
        /\ \A m \in left : Len(m) > 1 => Parent(m) \in left
        /\ dst' = Without(dst, all \ left) /\ src' = src
  BY DEF RemoveListed
<1>2. all \ left \in SUBSET Node /\ \A m \in all \ left : Under(m) \subseteq all \ left
  BY <1>1, RemovedListed
<1>3. "remove" \notin Faults => all \ left = all
  BY <1>1
<1> HIDE DEF all
<1>4. all \ left \subseteq all
  OBVIOUS
<1>5. QED
  BY <1>1, <1>2, <1>3, <1>4 DEF all

\* A target is created in a directory, or nothing changes.
LEMMA Created ==
  ASSUME DataTypes, Standing(dst), NEW x, x # "none", NEW k, NEW f, Create(x, k, f)
  PROVE  Standing(dst')
<1>1. CASE dst' = dst
  BY <1>1 DEF Standing
<1>2. CASE Creatable(cur) /\ dst' = [dst EXCEPT ![cur] = x]
  <2>1. cur \in Node /\ dst \in [Node -> Object]
    BY DEF DataTypes
  <2>2. \A m \in Node : cur \in Under(m) /\ m # cur => dst[m] # "none"
    <3> SUFFICES ASSUME NEW m \in Node, cur \in Under(m), m # cur PROVE dst[m] # "none"
      OBVIOUS
    <3>1. Len(cur) > 1
      BY <2>1, NodeLength, TopAlone
    <3>2. Parent(cur) \in Under(m) /\ Parent(cur) \in Node
      BY <2>1, <3>1, ParentAbove
    <3>3. dst[Parent(cur)] # "none"
      BY <1>2, <3>1 DEF Creatable, IsDir
    <3>4. QED
      BY <3>2, <3>3 DEF Standing
  <2>3. QED
    BY <1>2, <2>1, <2>2, UnderOrder DEF Standing
<1>3. QED
  BY <1>1, <1>2 DEF Create

\* Both directories stay trees until a cleanup.
LEMMA TreesStep ==
  TypeOK /\ Places /\ Ends /\ Cleared /\ Trees /\ [Next]_vars => Trees'
<1> SUFFICES ASSUME TypeOK, Places, Ends, Cleared, Trees, [Next]_vars, ~cleaned'
             PROVE  Standing(src') /\ Standing(dst')
  BY ArgsStay DEF Trees
<1>a. DataTypes /\ cur \in Node /\ dst \in [Node -> Object] /\ src \in [Node -> Object]
  BY DEF TypeOK, DataTypes
<1>b. cleaned' \in BOOLEAN /\ cleaned \in BOOLEAN
  BY FlagStep DEF TypeOK, FlagTypes
<1>c. ~cleaned
  <2>1. CASE Finish
    BY <2>1 DEF Finish, Ends
  <2>2. CASE cleaned' = cleaned
    BY <2>2
  <2>3. QED
    BY <2>1, <2>2, FilesChange DEF FilesMove, CopyDirectory, DirExists, RegExists, RegCreate,
       RegLoop,
       NewLinkExists, NewLinkGo, MoveExists, MoveRename, CopyDone, Delete, LinkExists, LinkGo, fin
<1>d. Standing(src) /\ Standing(dst)
  BY <1>c DEF Trees
<1>e. ASSUME NEW k, NEW p, NEW f, DropTarget(k, p, f) PROVE Standing(dst')
  BY <1>a, <1>d, <1>e, Dropped, WithoutStands, UnderOrder
<1>1. CASE Finish
  BY <1>1, <1>d DEF Finish, fs
<1>2. CASE CopyDirectory
  BY <1>2, <1>a, <1>d, Created DEF CopyDirectory
<1>3. CASE DirExists
  BY <1>3, <1>d, <1>e DEF DirExists
<1>4. CASE RegExists
  BY <1>4, <1>d, <1>e DEF RegExists
<1>5. CASE RegCreate
  BY <1>5, <1>a, <1>d, Created DEF RegCreate
<1>6. CASE RegLoop
  <2>1. dst[cur] = "part"
    BY <1>6 DEF RegLoop, Cleared, Point
  <2>2. QED
    BY <1>6, <1>a, <1>d, <2>1, UnderOrder DEF RegLoop, Standing
<1>7. CASE NewLinkExists
  BY <1>7, <1>d, <1>e DEF NewLinkExists
<1>8. CASE NewLinkGo
  BY <1>8, <1>a, <1>d, Created DEF NewLinkGo
<1>9. CASE MoveExists
  BY <1>9, <1>d, <1>e DEF MoveExists
<1>10. CASE MoveRename
  <2>1. Len(cur) = 1
    BY <1>10 DEF MoveRename, Places, Point, Working, CopyPCs, AtWork, RegPCs, LinkNodePCs, MovePCs
  <2>2. \A m \in Node : \A n \in Under(m) : n \in Under(cur) <=> m \in Under(cur)
    BY <1>a, <2>1, TopOf, UnderOrder
  <2>3. CASE UNCHANGED fs
    BY <1>d, <2>3 DEF fs
  <2>4. CASE /\ dst' = [m \in Node |-> IF m \in Under(cur) THEN src[m] ELSE dst[m]]
             /\ src' = Without(src, Under(cur))
    BY <1>a, <1>d, <2>2, <2>4, UnderOrder DEF Standing, Without
  <2>5. QED
    BY <1>10, <2>3, <2>4 DEF MoveRename
<1>11. CASE CopyDone
  <2>1. CASE UNCHANGED fs
    BY <1>d, <2>1 DEF fs
  <2>2. CASE RemoveListed({cur})
    <3>1. PICK gone \in SUBSET Node : /\ dst' = Without(dst, gone) /\ src' = src
                                      /\ \A m \in gone : Under(m) \subseteq gone
      BY <1>a, <2>2, Unlisted
    <3>2. QED
      BY <1>d, <3>1, WithoutStands
  <2>3. QED
    BY <1>11, <2>1, <2>2 DEF CopyDone
<1>12. CASE Delete
  <2>1. PICK n \in Removable :
          \/ (\A m \in Under(n) : m = n \/ src[m] = "none") /\ src' = [src EXCEPT ![n] = "none"]
          \/ UNCHANGED src
    BY <1>12 DEF Delete
  <2>2. n \in Node /\ dst' = dst
    BY <1>12, <1>a, UnderOrder DEF Delete, Removable
  <2>3. QED
    BY <1>a, <1>d, <2>1, <2>2, UnderOrder DEF Standing
<1>13. CASE LinkExists
  BY <1>13, <1>d, <1>e DEF LinkExists
<1>14. CASE LinkGo
  BY <1>14, <1>a, <1>d, Created DEF LinkGo
<1>15. CASE UNCHANGED fs
  BY <1>15, <1>d DEF fs
<1>16. QED
  BY <1>1, <1>2, <1>3, <1>4, <1>5, <1>6, <1>7, <1>8, <1>9, <1>10, <1>11, <1>12, <1>13, <1>14, <1>15,
     FilesChange DEF FilesMove

\* An existing target is acted upon only after the alert about it.
LEMMA AskedStep == DataTypes /\ Ends /\ Asked /\ [Next]_vars => Asked'
<1> SUFFICES ASSUME DataTypes, Ends, Asked, [Next]_vars PROVE Asked'
  OBVIOUS
<1>a. cur \in Node /\ told \in [Node -> SUBSET Problem] /\ pc \in PCs /\ cont \in WorkPCs /\ op \in Operation
  BY DEF DataTypes
<1> USE <1>a DEF Asked, Ends, Operation, Point, Working, CopyPCs, AtWork, RegPCs, LinkNodePCs,
        MovePCs, LinkPCs, ExistsPCs, WorkPCs, PCs, Go, args, fs, comm, walk, fin

<1>1. CASE InstallHandler
  BY <1>1 DEF InstallHandler
<1>2. CASE Start
  BY <1>2 DEF Start
<1>3. CASE NextFile
  BY <1>3 DEF NextFile, FirstStep, More
<1>4. CASE EndOfFiles
  BY <1>4 DEF EndOfFiles
<1>5. CASE Finish
  BY <1>5 DEF Finish, CleanUp
<1>6. CASE Report
  BY <1>6 DEF Report
<1>7. CASE CopyFile
  BY <1>7 DEF CopyFile, Ask, Seen
<1>8. CASE CopyDirectory
  BY <1>8 DEF CopyDirectory, Ask, Create
<1>9. CASE DirExists
  BY <1>9 DEF DirExists, DropTarget, Ask
<1>10. CASE DirList
  BY <1>10 DEF DirList, Ask
<1>11. CASE DirNext
  BY <1>11 DEF DirNext
<1>12. CASE DirEnd
  BY <1>12 DEF DirEnd, Ask
<1>13. CASE CopyRegular
  BY <1>13 DEF CopyRegular, Ask
<1>14. CASE RegExists
  BY <1>14 DEF RegExists, DropTarget, Ask
<1>15. CASE RegCreate
  BY <1>15 DEF RegCreate, Create, Ask
<1>16. CASE RegOpen
  BY <1>16 DEF RegOpen, Ask
<1>17. CASE RegLoop
  BY <1>17 DEF RegLoop
<1>18. CASE RegSpinEnds
  BY <1>18 DEF RegSpinEnds
<1>19. CASE RegAttrs
  BY <1>19 DEF RegAttrs, Ask
<1>20. CASE DuplicateSymbolicLink
  BY <1>20 DEF DuplicateSymbolicLink, Ask, FollowSolution
<1>21. CASE CopySymbolicLink
  BY <1>21 DEF CopySymbolicLink, Ask, FollowSolution
<1>22. CASE SymlinkNoTarget
  BY <1>22 DEF SymlinkNoTarget, FollowSolution
<1>23. CASE NewLink
  BY <1>23 DEF NewLink, Ask
<1>24. CASE NewLinkExists
  BY <1>24 DEF NewLinkExists, DropTarget, Ask
<1>25. CASE NewLinkGo
  BY <1>25 DEF NewLinkGo, Create, Ask
<1>26. CASE Return
  BY <1>26 DEF Return
<1>27. CASE Move
  BY <1>27 DEF Move, Ask
<1>28. CASE MoveExists
  BY <1>28 DEF MoveExists, DropTarget, Ask
<1>29. CASE MoveRename
  BY <1>29 DEF MoveRename, Ask
<1>30. CASE MoveByCopy
  BY <1>30 DEF MoveByCopy
<1>31. CASE CopyDone
  BY <1>31 DEF CopyDone
<1>32. CASE MoveDelete
  BY <1>32 DEF MoveDelete
<1>33. CASE Delete
  BY <1>33 DEF Delete, Ask
<1>34. CASE DeleteEnd
  BY <1>34 DEF DeleteEnd
<1>35. CASE Link
  BY <1>35 DEF Link, Ask
<1>36. CASE LinkExists
  BY <1>36 DEF LinkExists, DropTarget, Ask
<1>37. CASE LinkGo
  BY <1>37 DEF LinkGo, Create, Ask
<1>38. CASE Answer
  BY <1>38 DEF Answer
<1>39. CASE AnswerStop
  BY <1>39 DEF AnswerStop
<1>40. CASE Interrupt
  BY <1>40 DEF Interrupt
<1>41. CASE Killed
  BY <1>41 DEF Killed
<1>42. CASE Done
  BY <1>42 DEF Done, vars
<1>43. CASE UNCHANGED vars
  BY <1>43 DEF vars
<1>44. QED
  BY <1>1, <1>2, <1>3, <1>4, <1>5, <1>6, <1>7, <1>8, <1>9, <1>10, <1>11, <1>12, <1>13, <1>14,
     <1>15, <1>16, <1>17, <1>18, <1>19, <1>20, <1>21, <1>22, <1>23, <1>24, <1>25, <1>26, <1>27,
     <1>28, <1>29, <1>30, <1>31, <1>32, <1>33, <1>34, <1>35, <1>36, <1>37, <1>38, <1>39, <1>40,
     <1>41, <1>42, <1>43 DEF Next, ToolStep, CopyStep, MoveStep


\* A target is created only where none stands.
LEMMA ClearedStep == DataTypes /\ Ends /\ Cleared /\ [Next]_vars => Cleared'
<1> SUFFICES ASSUME DataTypes, Ends, Cleared, [Next]_vars PROVE Cleared'
  OBVIOUS
<1>a. /\ cur \in Node /\ dst \in [Node -> Object] /\ pc \in PCs /\ cont \in WorkPCs
      /\ op \in Operation
      /\ cur \in Under(cur)
  BY UnderOrder DEF DataTypes
<1> USE <1>a DEF Cleared, Ends, Operation, Point, Working, CopyPCs, AtWork, RegPCs, LinkNodePCs,
        MovePCs, LinkPCs, ExistsPCs, WorkPCs, PCs, Go, args, fs, comm, walk, fin

<1>1. CASE InstallHandler
  BY <1>1 DEF InstallHandler
<1>2. CASE Start
  BY <1>2 DEF Start
<1>3. CASE NextFile
  BY <1>3 DEF NextFile, FirstStep, More
<1>4. CASE EndOfFiles
  BY <1>4 DEF EndOfFiles
<1>5. CASE Finish
  BY <1>5 DEF Finish, CleanUp
<1>6. CASE Report
  BY <1>6 DEF Report
<1>7. CASE CopyFile
  BY <1>7 DEF CopyFile, Ask, Seen
<1>8. CASE CopyDirectory
  BY <1>8 DEF CopyDirectory, Ask, Create
<1>9. CASE DirExists
  BY <1>9 DEF DirExists, DropTarget, Ask, Without
<1>10. CASE DirList
  BY <1>10 DEF DirList, Ask
<1>11. CASE DirNext
  BY <1>11 DEF DirNext
<1>12. CASE DirEnd
  BY <1>12 DEF DirEnd, Ask
<1>13. CASE CopyRegular
  BY <1>13 DEF CopyRegular, Ask
<1>14. CASE RegExists
  BY <1>14 DEF RegExists, DropTarget, Ask, Without
<1>15. CASE RegCreate
  BY <1>15 DEF RegCreate, Create, Ask
<1>16. CASE RegOpen
  BY <1>16 DEF RegOpen, Ask
<1>17. CASE RegLoop
  BY <1>17 DEF RegLoop
<1>18. CASE RegSpinEnds
  BY <1>18 DEF RegSpinEnds
<1>19. CASE RegAttrs
  BY <1>19 DEF RegAttrs, Ask
<1>20. CASE DuplicateSymbolicLink
  BY <1>20 DEF DuplicateSymbolicLink, Ask, FollowSolution
<1>21. CASE CopySymbolicLink
  BY <1>21 DEF CopySymbolicLink, Ask, FollowSolution
<1>22. CASE SymlinkNoTarget
  BY <1>22 DEF SymlinkNoTarget, FollowSolution
<1>23. CASE NewLink
  BY <1>23 DEF NewLink, Ask
<1>24. CASE NewLinkExists
  BY <1>24 DEF NewLinkExists, DropTarget, Ask, Without
<1>25. CASE NewLinkGo
  BY <1>25 DEF NewLinkGo, Create, Ask
<1>26. CASE Return
  BY <1>26 DEF Return
<1>27. CASE Move
  BY <1>27 DEF Move, Ask
<1>28. CASE MoveExists
  BY <1>28 DEF MoveExists, DropTarget, Ask, Without
<1>29. CASE MoveRename
  BY <1>29 DEF MoveRename, Ask
<1>30. CASE MoveByCopy
  BY <1>30 DEF MoveByCopy
<1>31. CASE CopyDone
  BY <1>31 DEF CopyDone
<1>32. CASE MoveDelete
  BY <1>32 DEF MoveDelete
<1>33. CASE Delete
  BY <1>33 DEF Delete, Ask
<1>34. CASE DeleteEnd
  BY <1>34 DEF DeleteEnd
<1>35. CASE Link
  BY <1>35 DEF Link, Ask
<1>36. CASE LinkExists
  BY <1>36 DEF LinkExists, DropTarget, Ask, Without
<1>37. CASE LinkGo
  BY <1>37 DEF LinkGo, Create, Ask
<1>38. CASE Answer
  BY <1>38 DEF Answer
<1>39. CASE AnswerStop
  BY <1>39 DEF AnswerStop
<1>40. CASE Interrupt
  BY <1>40 DEF Interrupt
<1>41. CASE Killed
  BY <1>41 DEF Killed
<1>42. CASE Done
  BY <1>42 DEF Done, vars
<1>43. CASE UNCHANGED vars
  BY <1>43 DEF vars
<1>44. QED
  BY <1>1, <1>2, <1>3, <1>4, <1>5, <1>6, <1>7, <1>8, <1>9, <1>10, <1>11, <1>12, <1>13, <1>14,
     <1>15, <1>16, <1>17, <1>18, <1>19, <1>20, <1>21, <1>22, <1>23, <1>24, <1>25, <1>26, <1>27,
     <1>28, <1>29, <1>30, <1>31, <1>32, <1>33, <1>34, <1>35, <1>36, <1>37, <1>38, <1>39, <1>40,
     <1>41, <1>42, <1>43 DEF Next, ToolStep, CopyStep, MoveStep


\* Without a rename nothing old appears at the destination.
LEMMA NothingOldAppears ==
  ASSUME DataTypes, Ends, [Next]_vars, ~MoveRename, ~Finish
  PROVE  \A n \in Node : dst'[n] = "old" => dst[n] = "old"
<1>a. cur \in Node /\ dst \in [Node -> Object]
  BY DEF DataTypes
<1>b. ASSUME NEW k, NEW p, NEW f, DropTarget(k, p, f)
      PROVE  \A n \in Node : dst'[n] = "old" => dst[n] = "old"
  BY <1>b, Dropped DEF Without
<1>c. ASSUME NEW x, x # "old", NEW k, NEW f, Create(x, k, f)
      PROVE  \A n \in Node : dst'[n] = "old" => dst[n] = "old"
  BY <1>a, <1>c DEF Create
<1>d. CASE CopyDone
  <2>1. CASE RemoveListed({cur})
    BY <1>a, <2>1, Unlisted DEF Without
  <2>2. QED
    BY <1>d, <2>1 DEF CopyDone, fs
<1>e. CASE RegLoop
  BY <1>a, <1>e DEF RegLoop
<1>f. QED
  BY <1>b, <1>c, <1>d, <1>e, FilesChange DEF FilesMove, fs, CopyDirectory, DirExists, RegExists,
     RegCreate,
     NewLinkExists, NewLinkGo, MoveExists, Delete, LinkExists, LinkGo

\* A move copies only to where nothing old is left.
LEMMA MoveFreeStep ==
  TypeOK /\ Contents /\ Places /\ Ends /\ Trees /\ Cleared /\ MoveFree /\ [Next]_vars => MoveFree'
<1> DEFINE Region == CopyPCs \union {"moveGo", "copyDone"}
<1> SUFFICES ASSUME TypeOK, Contents, Places, Ends, Trees, Cleared, MoveFree, [Next]_vars,
                    op' = "Move", Point' \in Region, NEW n \in Under(Top(cur'))
             PROVE  dst'[n] # "old"
  BY DEF MoveFree
<1>a. /\ DataTypes /\ cur \in Node /\ dst \in [Node -> Object] /\ pc \in PCs /\ cont \in WorkPCs
      /\ op = "Move"
  BY ArgsStay DEF TypeOK, DataTypes
<1>b. cur' \in Node /\ n \in Node
  BY <1>a, DataStep, TopOf, UnderOrder DEF DataTypes
<1>c. ~Finish /\ ~MoveRename
  BY <1>a DEF Finish, MoveRename, Go, Ask, Point, CopyPCs, AtWork, RegPCs, LinkNodePCs
<1>d. dst'[n] = "old" => dst[n] = "old"
  BY <1>a, <1>b, <1>c, NothingOldAppears
<1>e. \A m \in pending[cur] : m \in Node /\ Top(m) = Top(cur)
  BY <1>a, ChildrenApart, TopOf DEF Contents
<1>f. Len(cur) > 1 => Parent(cur) \in Node /\ Top(Parent(cur)) = Top(cur)
  BY <1>a, ParentAbove, TopOf
<1>g. ASSUME Point \in Region, Top(cur') = Top(cur) PROVE dst'[n] # "old"
  BY <1>a, <1>d, <1>g DEF MoveFree
<1> USE <1>a, <1>g DEF Ends, Point, Working, CopyPCs, AtWork, RegPCs, LinkNodePCs, MovePCs,
        LinkPCs, ExistsPCs, WorkPCs, PCs, Operation, Go, args, fs, comm, walk, fin

<1>1. CASE InstallHandler
  BY <1>1 DEF InstallHandler
<1>2. CASE Start
  BY <1>2 DEF Start
<1>3. CASE NextFile
  BY <1>3 DEF NextFile, FirstStep, More
<1>4. CASE EndOfFiles
  BY <1>4 DEF EndOfFiles
<1>5. CASE Finish
  BY <1>5, <1>c DEF Finish, CleanUp
<1>6. CASE Report
  BY <1>6 DEF Report
<1>7. CASE CopyFile
  BY <1>7 DEF CopyFile, Ask, Seen
<1>8. CASE CopyDirectory
  BY <1>8 DEF CopyDirectory, Ask, Create
<1>9. CASE DirExists
  BY <1>9 DEF DirExists, DropTarget, Ask
<1>10. CASE DirList
  BY <1>10 DEF DirList, Ask
<1>11. CASE DirNext
  BY <1>11, <1>e DEF DirNext
<1>12. CASE DirEnd
  BY <1>12 DEF DirEnd, Ask
<1>13. CASE CopyRegular
  BY <1>13 DEF CopyRegular, Ask
<1>14. CASE RegExists
  BY <1>14 DEF RegExists, DropTarget, Ask
<1>15. CASE RegCreate
  BY <1>15 DEF RegCreate, Create, Ask
<1>16. CASE RegOpen
  BY <1>16 DEF RegOpen, Ask
<1>17. CASE RegLoop
  BY <1>17 DEF RegLoop
<1>18. CASE RegSpinEnds
  BY <1>18 DEF RegSpinEnds
<1>19. CASE RegAttrs
  BY <1>19 DEF RegAttrs, Ask
<1>20. CASE DuplicateSymbolicLink
  BY <1>20 DEF DuplicateSymbolicLink, Ask, FollowSolution
<1>21. CASE CopySymbolicLink
  BY <1>21 DEF CopySymbolicLink, Ask, FollowSolution
<1>22. CASE SymlinkNoTarget
  BY <1>22 DEF SymlinkNoTarget, FollowSolution
<1>23. CASE NewLink
  BY <1>23 DEF NewLink, Ask
<1>24. CASE NewLinkExists
  BY <1>24 DEF NewLinkExists, DropTarget, Ask
<1>25. CASE NewLinkGo
  BY <1>25 DEF NewLinkGo, Create, Ask
<1>26. CASE Return
  BY <1>26, <1>f DEF Return
<1>27. CASE Move
  <2>1. Point' = "moveGo" /\ cur' = cur /\ Top(cur) = cur
    BY <1>27, TopOf DEF Move, Ask, Places
  <2>2. Cleared' /\ Trees' /\ ~cleaned'
    BY <1>27, ClearedStep, TreesStep DEF Move, Ask
  <2>3. dst'[cur] = "none" /\ Standing(dst')
    BY <2>1, <2>2 DEF Cleared, Trees
  <2>4. QED
    BY <1>b, <2>1, <2>3 DEF Standing
<1>28. CASE MoveExists
  <2>1. Point' = "moveGo" /\ cur' = cur /\ Top(cur) = cur
    BY <1>28, TopOf DEF MoveExists, DropTarget, Ask, Places
  <2>2. Cleared' /\ Trees' /\ ~cleaned'
    BY <1>28, ClearedStep, TreesStep DEF MoveExists
  <2>3. dst'[cur] = "none" /\ Standing(dst')
    BY <2>1, <2>2 DEF Cleared, Trees
  <2>4. QED
    BY <1>b, <2>1, <2>3 DEF Standing
<1>29. CASE MoveRename
  BY <1>29, <1>c DEF MoveRename, Ask
<1>30. CASE MoveByCopy
  BY <1>30 DEF MoveByCopy
<1>31. CASE CopyDone
  BY <1>31 DEF CopyDone
<1>32. CASE MoveDelete
  BY <1>32 DEF MoveDelete
<1>33. CASE Delete
  BY <1>33 DEF Delete, Ask
<1>34. CASE DeleteEnd
  BY <1>34 DEF DeleteEnd
<1>35. CASE Link
  BY <1>35 DEF Link, Ask
<1>36. CASE LinkExists
  BY <1>36 DEF LinkExists, DropTarget, Ask
<1>37. CASE LinkGo
  BY <1>37 DEF LinkGo, Create, Ask
<1>38. CASE Answer
  BY <1>38 DEF Answer
<1>39. CASE AnswerStop
  BY <1>39 DEF AnswerStop
<1>40. CASE Interrupt
  BY <1>40 DEF Interrupt
<1>41. CASE Killed
  BY <1>41 DEF Killed
<1>42. CASE Done
  BY <1>42 DEF Done, vars
<1>43. CASE UNCHANGED vars
  BY <1>43 DEF vars
<1>44. QED
  BY <1>1, <1>2, <1>3, <1>4, <1>5, <1>6, <1>7, <1>8, <1>9, <1>10, <1>11, <1>12, <1>13, <1>14,
     <1>15, <1>16, <1>17, <1>18, <1>19, <1>20, <1>21, <1>22, <1>23, <1>24, <1>25, <1>26, <1>27,
     <1>28, <1>29, <1>30, <1>31, <1>32, <1>33, <1>34, <1>35, <1>36, <1>37, <1>38, <1>39, <1>40,
     <1>41, <1>42, <1>43 DEF Next, ToolStep, CopyStep, MoveStep

\* An older file goes only after its alert, or in a cleanup.
LEMMA OldKeptStep ==
  /\ TypeOK /\ Contents /\ Places /\ Ends /\ Trees /\ Asked /\ Cleared /\ MoveFree /\ OldFilesKept
  /\ [Next]_vars
  => OldFilesKept'
<1> SUFFICES ASSUME TypeOK, Contents, Places, Ends, Trees, Asked, Cleared, MoveFree, OldFilesKept, [Next]_vars,
                    NEW n \in Node, dst0'[n] = "old", dst'[n] # "old", ~cleaned'
             PROVE  \E m \in Up(n) : "FileExists" \in told'[m]
  BY DEF OldFilesKept
<1>a. /\ DataTypes /\ cur \in Node /\ dst \in [Node -> Object] /\ dst0' = dst0
      /\ told \in [Node -> SUBSET Problem] /\ Up(n) \subseteq Node
  BY ArgsStay DEF TypeOK, DataTypes, Up
<1>b. \A m \in Node : "FileExists" \in told[m] => "FileExists" \in told'[m]
  BY <1>a, ToldGrows
<1>c. ~cleaned
  <2>1. CASE Finish
    BY <2>1 DEF Finish, Ends
  <2>2. CASE cleaned' = cleaned
    BY <2>2
  <2>3. QED
    BY <2>1, <2>2, FilesChange DEF FilesMove, CopyDirectory, DirExists, RegExists, RegCreate,
       RegLoop,
       NewLinkExists, NewLinkGo, MoveExists, MoveRename, CopyDone, Delete, LinkExists, LinkGo, fin
<1>d. CASE dst[n] # "old"
  BY <1>a, <1>b, <1>c, <1>d DEF OldFilesKept
<1>e. CASE dst[n] = "old"
  <2>a. ASSUME NEW k, NEW p, NEW f, DropTarget(k, p, f), Point \in ExistsPCs
        PROVE  \E m \in Up(n) : "FileExists" \in told'[m]
    <3>1. PICK gone \in SUBSET Under(cur) : dst' = Without(dst, gone)
      BY <1>a, <2>a, Dropped
    <3>2. n \in Under(cur)
      BY <1>e, <3>1 DEF Without
    <3>3. cur \in Up(n) /\ "FileExists" \in told[cur]
      BY <1>a, <2>a, <3>2, UnderOrder DEF Asked
    <3>4. QED
      BY <1>a, <1>b, <3>3
  <2>b. ASSUME NEW x, NEW k, NEW f, Create(x, k, f), dst[cur] = "none" PROVE FALSE
    BY <1>a, <1>e, <2>b DEF Create
  <2> USE DEF Point
  <2>1. CASE Finish
    BY <1>e, <2>1 DEF Finish, fs
  <2>2. CASE CopyDirectory
    BY <1>e, <2>2, <2>b DEF CopyDirectory
  <2>3. CASE DirExists
    BY <1>e, <2>3, <2>a DEF DirExists, ExistsPCs
  <2>4. CASE RegExists
    BY <1>e, <2>4, <2>a DEF RegExists, ExistsPCs
  <2>5. CASE RegCreate
    BY <2>5, <2>b DEF RegCreate, Cleared
  <2>6. CASE RegLoop
    BY <1>a, <1>e, <2>6 DEF RegLoop, Cleared
  <2>7. CASE NewLinkExists
    BY <1>e, <2>7, <2>a DEF NewLinkExists, ExistsPCs
  <2>8. CASE NewLinkGo
    BY <2>8, <2>b DEF NewLinkGo, Cleared
  <2>9. CASE MoveExists
    BY <1>e, <2>9, <2>a DEF MoveExists, ExistsPCs
  <2>10. CASE MoveRename
    <3>1. Top(cur) = cur /\ op = "Move" /\ Point = "moveGo"
      BY <1>a, <2>10, TopOf DEF MoveRename, Places, Working, CopyPCs, AtWork, RegPCs, LinkNodePCs,
         MovePCs
    <3>2. n \notin Under(cur)
      BY <1>e, <3>1 DEF MoveFree
    <3>3. QED
      BY <1>e, <2>10, <3>2 DEF MoveRename, fs
  <2>11. CASE CopyDone
    <3>1. Top(cur) = cur /\ op = "Move" /\ Point = "copyDone"
      BY <1>a, <2>11, TopOf DEF CopyDone, Places, Working, CopyPCs, AtWork, RegPCs, LinkNodePCs,
         MovePCs
    <3>2. n \notin Under(cur)
      BY <1>e, <3>1 DEF MoveFree
    <3>3. CASE RemoveListed({cur})
      <4>1. PICK gone \in SUBSET Node : dst' = Without(dst,
      gone) /\ gone \subseteq UNION {Under(f) : f \in {cur}}
        BY <1>a, <3>3, Unlisted
      <4>2. n \in gone
        BY <1>e, <4>1 DEF Without
      <4>3. QED
        BY <3>2, <4>1, <4>2
    <3>4. QED
      BY <1>e, <2>11, <3>3 DEF CopyDone, fs
  <2>12. CASE Delete
    BY <1>e, <2>12 DEF Delete
  <2>13. CASE LinkExists
    BY <1>e, <2>13, <2>a DEF LinkExists, ExistsPCs
  <2>14. CASE LinkGo
    BY <2>14, <2>b DEF LinkGo, Cleared
  <2>15. CASE UNCHANGED fs
    BY <1>e, <2>15 DEF fs
  <2>16. QED
    BY <2>1, <2>2, <2>3, <2>4, <2>5, <2>6, <2>7, <2>8, <2>9, <2>10, <2>11, <2>12, <2>13, <2>14,
       <2>15,
       FilesChange DEF FilesMove
<1>f. QED
  BY <1>d, <1>e

\* The invariant of the walk and of the destination, for every list and every fault.
WalkInv == TypeOK /\ Contents /\ Places /\ Ends /\ Trees /\ Asked /\ Cleared /\ MoveFree

\* It holds when the tool starts ...
LEMMA WalkInit == Init => WalkInv
<1> SUFFICES ASSUME Init PROVE WalkInv
  OBVIOUS
<1>1. TypeOK
  <2>1. DataTypes
    BY TreeAssumption, RunAssumption
    DEF Init, DataTypes, Operation, Object, Problem, Solution, PCs, WorkPCs, OldTrees, Source
  <2>2. QED
    BY <2>1 DEF Init, TypeOK, FlagTypes
<1>2. pc = "boot" /\ Point = "boot" /\ idx = 0 /\ ~cleaned /\ result = "none"
  BY DEF Init, Point
<1>3. Contents
  BY DEF Init, Contents
<1>4. Trees
  BY SourceTree, OldStands DEF Init, Trees
<1>5. QED
  BY <1>1, <1>2, <1>3, <1>4 DEF WalkInv, Places, Ends, Asked, Cleared, MoveFree, Working, CopyPCs,
     AtWork,
     RegPCs, LinkNodePCs, MovePCs, LinkPCs, ExistsPCs

\* ... and every step keeps it.
LEMMA WalkStep == WalkInv /\ [Next]_vars => WalkInv'
<1> SUFFICES ASSUME WalkInv, [Next]_vars PROVE WalkInv'
  OBVIOUS
<1>1. TypeOK'
  BY DataStep, FlagStep DEF WalkInv, TypeOK
<1>2. Contents' /\ Places' /\ Ends' /\ Asked' /\ Cleared'
  BY ContentsStep, PlacesStep, EndsStep, AskedStep, ClearedStep DEF WalkInv, TypeOK
<1>3. Trees' /\ MoveFree'
  BY TreesStep, MoveFreeStep DEF WalkInv
<1>4. QED
  BY <1>1, <1>2, <1>3 DEF WalkInv

\* Through every interleaving of stops, answers and failing calls the tool keeps to
\* its places (which function is at work on which path of which listed name), both
\* directories stay trees, and no target is removed before the FileExists alert about it.
THEOREM WalkInvariance == Spec => []WalkInv
BY WalkInit, WalkStep, PTL DEF Spec

\* Whatever stops, answers and failing calls come, a file that was at the destination
\* survives unless CopyRegular, CopyDirectory, the links or Move raised the FileExists
\* alert for it or for a directory above it, or a cleanup ran.
THEOREM OldKept == Spec => []OldFilesKept
<1>1. Init => OldFilesKept
  BY DEF Init, OldFilesKept
<1>2. WalkInv /\ OldFilesKept /\ [Next]_vars => OldFilesKept'
  BY OldKeptStep DEF WalkInv
<1>3. QED
  BY <1>1, <1>2, WalkInvariance, PTL DEF Spec
-----------------------------------------------------------------------------
(* Undoing *)

\* A step before the cleanup touches, and tells of, nothing but what lies under cur.
LEMMA Local ==
  ASSUME WalkInv, [Next]_vars, ~cleaned', NEW n \in Node, n \notin Under(cur) \/ Point \notin Working
  PROVE  src'[n] = src[n] /\ dst'[n] = dst[n] /\ told'[n] = told[n]
<1>a. /\ DataTypes /\ Places /\ Ends /\ cur \in Node /\ dst \in [Node -> Object]
      /\ src \in [Node -> Object]
      /\ told \in [Node -> SUBSET Problem] /\ pc \in PCs /\ cont \in WorkPCs
  BY DEF WalkInv, TypeOK, DataTypes
<1>b. ASSUME NEW k, NEW p, NEW f, DropTarget(k, p, f), n \notin Under(cur) PROVE dst'[n] = dst[n]
  BY <1>a, <1>b, Dropped DEF Without
<1>c. ASSUME NEW p, NEW k, Ask(cur, p, k), n \notin Under(cur) PROVE told'[n] = told[n]
  BY <1>a, <1>c, UnderOrder DEF Ask
<1>d. ASSUME NEW k, Go(k) PROVE told'[n] = told[n]
  BY <1>d DEF Go, comm
<1>e. ASSUME NEW x, NEW k, NEW f, Create(x, k, f), n \notin Under(cur)
      PROVE  dst'[n] = dst[n] /\ told'[n] = told[n]
  BY <1>a, <1>c, <1>d, <1>e, UnderOrder DEF Create
<1>f. ASSUME NEW k, NEW p, NEW f, DropTarget(k, p, f), n \notin Under(cur) PROVE told'[n] = told[n]
  BY <1>c, <1>d, <1>f DEF DropTarget
<1>g. Point = pc \/ pc = "wait"
  BY DEF Point
<1> USE <1>a, <1>g DEF Working, CopyPCs, AtWork, RegPCs, LinkNodePCs, MovePCs, LinkPCs, WorkPCs,
        PCs, args, fs, walk, fin

<1>1. CASE InstallHandler
  BY <1>1, <1>c, <1>d DEF InstallHandler
<1>2. CASE Start
  BY <1>2, <1>c, <1>d DEF Start, comm
<1>3. CASE NextFile
  BY <1>3, <1>c, <1>d DEF NextFile, FirstStep, More, comm
<1>4. CASE EndOfFiles
  BY <1>4, <1>c, <1>d DEF EndOfFiles
<1>5. CASE Finish
  BY <1>5, <1>c, <1>d DEF Finish
<1>6. CASE Report
  BY <1>6, <1>c, <1>d DEF Report
<1>7. CASE CopyFile
  BY <1>7, <1>c, <1>d DEF CopyFile, Seen
<1>8. CASE CopyDirectory
  BY <1>8, <1>c, <1>d, <1>e DEF CopyDirectory
<1>9. CASE DirExists
  BY <1>9, <1>c, <1>d, <1>b, <1>f DEF DirExists
<1>10. CASE DirList
  BY <1>10, <1>c, <1>d DEF DirList
<1>11. CASE DirNext
  BY <1>11, <1>c, <1>d DEF DirNext
<1>12. CASE DirEnd
  BY <1>12, <1>c, <1>d DEF DirEnd
<1>13. CASE CopyRegular
  BY <1>13, <1>c, <1>d DEF CopyRegular
<1>14. CASE RegExists
  BY <1>14, <1>c, <1>d, <1>b, <1>f DEF RegExists
<1>15. CASE RegCreate
  BY <1>15, <1>c, <1>d, <1>e DEF RegCreate
<1>16. CASE RegOpen
  BY <1>16, <1>c, <1>d DEF RegOpen
<1>17. CASE RegLoop
  BY <1>17, <1>d, UnderOrder DEF RegLoop
<1>18. CASE RegSpinEnds
  BY <1>18, <1>c, <1>d DEF RegSpinEnds
<1>19. CASE RegAttrs
  BY <1>19, <1>c, <1>d DEF RegAttrs
<1>20. CASE DuplicateSymbolicLink
  BY <1>20, <1>c, <1>d DEF DuplicateSymbolicLink, FollowSolution
<1>21. CASE CopySymbolicLink
  BY <1>21, <1>c, <1>d DEF CopySymbolicLink, FollowSolution
<1>22. CASE SymlinkNoTarget
  BY <1>22, <1>c, <1>d DEF SymlinkNoTarget, FollowSolution
<1>23. CASE NewLink
  BY <1>23, <1>c, <1>d DEF NewLink
<1>24. CASE NewLinkExists
  BY <1>24, <1>c, <1>d, <1>b, <1>f DEF NewLinkExists
<1>25. CASE NewLinkGo
  BY <1>25, <1>c, <1>d, <1>e DEF NewLinkGo
<1>26. CASE Return
  BY <1>26, <1>c, <1>d DEF Return
<1>27. CASE Move
  BY <1>27, <1>c, <1>d DEF Move
<1>28. CASE MoveExists
  BY <1>28, <1>c, <1>d, <1>b, <1>f DEF MoveExists
<1>29. CASE MoveRename
  BY <1>29, <1>c, <1>d DEF MoveRename, Without
<1>30. CASE MoveByCopy
  BY <1>30, <1>c, <1>d DEF MoveByCopy
<1>31. CASE CopyDone
  <2>1. CASE RemoveListed({cur})
    BY <1>31, <1>d, <2>1, Unlisted DEF CopyDone, Without
  <2>2. QED
    BY <1>31, <1>d, <2>1 DEF CopyDone
<1>32. CASE MoveDelete
  BY <1>32, <1>c, <1>d DEF MoveDelete
<1>33. CASE Delete
  <2>1. n \notin Under(cur)
    BY <1>33 DEF Delete
  <2>2. PICK m \in Removable :
          \/ src' = [src EXCEPT ![m] = "none"] /\ Go("delete")
          \/ Ask(m, "DeleteError", "delete") /\ UNCHANGED src
    BY <1>33 DEF Delete
  <2>3. m \in Node /\ m # n
    BY <2>1, <2>2, UnderOrder DEF Removable
  <2>4. dst' = dst
    BY <1>33 DEF Delete
  <2>5. QED
    BY <2>2, <2>3, <2>4, <1>d DEF Ask
<1>34. CASE DeleteEnd
  BY <1>34, <1>c, <1>d DEF DeleteEnd
<1>35. CASE Link
  BY <1>35, <1>c, <1>d DEF Link
<1>36. CASE LinkExists
  BY <1>36, <1>c, <1>d, <1>b, <1>f DEF LinkExists
<1>37. CASE LinkGo
  BY <1>37, <1>c, <1>d, <1>e DEF LinkGo
<1>38. CASE Answer
  BY <1>38, <1>c, <1>d DEF Answer, comm
<1>39. CASE AnswerStop
  BY <1>39, <1>c, <1>d DEF AnswerStop, comm
<1>40. CASE Interrupt
  BY <1>40, <1>c, <1>d DEF Interrupt, comm
<1>41. CASE Killed
  BY <1>41, <1>c, <1>d DEF Killed, comm
<1>42. CASE Done
  BY <1>42, <1>c, <1>d DEF Done, vars, comm
<1>43. CASE UNCHANGED vars
  BY <1>43, <1>c, <1>d DEF vars, comm
<1>44. QED
  BY <1>1, <1>2, <1>3, <1>4, <1>5, <1>6, <1>7, <1>8, <1>9, <1>10, <1>11, <1>12, <1>13, <1>14,
     <1>15, <1>16, <1>17, <1>18, <1>19, <1>20, <1>21, <1>22, <1>23, <1>24, <1>25, <1>26, <1>27,
     <1>28, <1>29, <1>30, <1>31, <1>32, <1>33, <1>34, <1>35, <1>36, <1>37, <1>38, <1>39, <1>40,
     <1>41, <1>42, <1>43 DEF Next, ToolStep, CopyStep, MoveStep


\* A step before the cleanup leaves the other listed names alone.
LEMMA OthersAlone ==
  ASSUME WalkInv, [Next]_vars, ~cleaned', NEW n \in Node, Top(n) # Top(cur) \/ Point \notin Working
  PROVE  src'[n] = src[n] /\ dst'[n] = dst[n] /\ told'[n] = told[n]
<1>1. cur \in Node
  BY DEF WalkInv, TypeOK, DataTypes
<1>2. n \in Under(cur) => Top(n) = Top(cur)
  BY <1>1, TopOf
<1>3. QED
  BY <1>2, Local

\* A cleanup is the end, and idx and cur change in these steps only.
LEMMA WalkMoves ==
  ASSUME WalkInv, [Next]_vars
  PROVE  /\ cleaned => cleaned' /\ UNCHANGED fs
         /\ ~NextFile => idx' = idx
         /\ ~NextFile => Top(cur') = Top(cur)
<1>a. cur \in Node /\ pc \in PCs /\ Contents /\ Ends /\ Places
  BY DEF WalkInv, TypeOK, DataTypes
<1>1. cleaned => cleaned' /\ UNCHANGED fs
  <2>1. SUFFICES ASSUME cleaned PROVE cleaned' /\ UNCHANGED fs
    OBVIOUS
  <2>2. pc \in {"report", "exit"}
    BY <1>a, <2>1 DEF Ends
  <2>3. ~FilesMove
    BY <2>2 DEF FilesMove, Finish, CopyDirectory, DirExists, RegExists, RegCreate, RegLoop,
       NewLinkExists, NewLinkGo, MoveExists, MoveRename, CopyDone, Delete, LinkExists, LinkGo
  <2>4. QED
    BY <2>1, <2>3, FilesChange
<1>2. CASE DirNext
  <2>1. \A m \in pending[cur] : Top(m) = Top(cur)
    BY <1>a, ChildrenApart, TopOf DEF Contents
  <2>2. QED
    BY <1>1, <1>2, <2>1 DEF DirNext
<1>3. CASE Return
  <2>1. Len(cur) > 1 => Top(Parent(cur)) = Top(cur)
    BY <1>a, ParentAbove, TopOf
  <2>2. QED
    BY <1>1, <1>3, <2>1 DEF Return
<1>4. CASE cur' = cur /\ idx' = idx
  BY <1>1, <1>4
<1>5. CASE NextFile
  BY <1>1, <1>5
<1>6. QED
  BY <1>1, <1>2, <1>3, <1>4, <1>5 DEF Next, ToolStep, CopyStep, MoveStep, vars, walk,
     InstallHandler, Start,
     EndOfFiles, Finish, Report, CopyFile, CopyDirectory, DirExists, DirList, DirEnd, CopyRegular,
     RegExists, RegCreate, RegOpen, RegLoop, RegSpinEnds, RegAttrs, DuplicateSymbolicLink,
     CopySymbolicLink, SymlinkNoTarget, NewLink, NewLinkExists, NewLinkGo, Move, MoveExists,
     MoveRename, MoveByCopy, CopyDone, MoveDelete, Delete, DeleteEnd, Link, LinkExists, LinkGo,
     Answer, AnswerStop, Interrupt, Killed, Done

\* What no name of the list so far covers is as it was.
LEMMA UntouchedStep == WalkInv /\ Untouched /\ [Next]_vars => Untouched'
<1> SUFFICES ASSUME WalkInv, Untouched, [Next]_vars, ~cleaned', NEW n \in Node, ~Begun(n)'
             PROVE  src'[n] = Source[n] /\ dst'[n] = dst0'[n] /\ told'[n] = {}
  BY DEF Untouched
<1>1. ~cleaned
  BY WalkMoves
<1>2. idx \in 0..Len(FileList) /\ Len(FileList) \in Nat
  BY PathsInTree DEF WalkInv, TypeOK, DataTypes
<1>3. idx' = idx \/ idx' = idx + 1
  BY WalkMoves DEF NextFile
<1>4. ~Begun(n)
  BY <1>2, <1>3 DEF Begun
<1>5. Point \in Working => idx > 0 /\ FileList[idx] = Top(cur)
  BY DEF WalkInv, Places
<1>6. Top(n) # Top(cur) \/ Point \notin Working
  BY <1>2, <1>4, <1>5 DEF Begun
<1>7. src'[n] = src[n] /\ dst'[n] = dst[n] /\ told'[n] = told[n]
  BY <1>6, OthersAlone
<1>8. QED
  BY <1>1, <1>4, <1>7, ArgsStay DEF Untouched

\* NextFile comes to a name it has not been at.
LEMMA NextIsNew ==
  ASSUME WalkInv, Untouched, NextFile
  PROVE  /\ ~cleaned /\ cur' \in Node /\ Len(cur') = 1 /\ Top(cur') = cur'
         /\ cur' \in Range(FileList)
         /\ \A n \in Under(cur') : src[n] = Source[n] /\ dst[n] = dst0[n] /\ told[n] = {}
<1>1. idx + 1 \in 1..Len(FileList) /\ idx \in Nat
  BY PathsInTree DEF NextFile, More, WalkInv, TypeOK, DataTypes
<1>2. cur' = FileList[idx + 1] /\ cur' \in Node /\ Len(cur') = 1
  BY <1>1, TreeAssumption DEF NextFile
<1>3. ~cleaned
  BY DEF NextFile, WalkInv, Ends
<1>4. Top(cur') = cur' /\ \A n \in Under(cur') : n \in Node /\ Top(n) = cur'
  BY <1>2, TopOf, UnderOrder
<1>5. \A i \in 1..idx : FileList[i] # FileList[idx + 1]
  <2>1. \A i \in 1..idx : i \in 1..Len(FileList) /\ i # idx + 1
    BY <1>1
  <2>2. QED
    BY <1>1, <2>1, ListAssumption
<1>6. \A n \in Under(cur') : ~Begun(n)
  BY <1>2, <1>4, <1>5 DEF Begun
<1>7. cur' \in Range(FileList)
  BY <1>1, <1>2, TreeAssumption DEF Range
<1>8. QED
  BY <1>2, <1>3, <1>4, <1>6, <1>7 DEF Untouched

\* Up to the deletion a step of a copy or move comes after another and leaves the source.
LEMMA CopiesFirst ==
  ASSUME WalkInv, [Next]_vars, ~NextFile,
         Point' \in CopyPCs \union MovePCs \union {"copyDone", "moveDelete"}
  PROVE  src' = src /\ Point \in CopyPCs \union MovePCs \union {"copyDone", "moveDelete"}
<1>a. pc \in PCs /\ cont \in WorkPCs /\ op \in Operation
  BY DEF WalkInv, TypeOK, DataTypes
<1> USE <1>a DEF Point, Working, CopyPCs, AtWork, RegPCs, LinkNodePCs, MovePCs, LinkPCs, ExistsPCs,
        WorkPCs, PCs, Go, args, fs, comm, walk, fin

<1>1. CASE InstallHandler
  BY <1>1 DEF InstallHandler
<1>2. CASE Start
  BY <1>2 DEF Start
<1>3. CASE NextFile
  BY <1>3 DEF NextFile, FirstStep, More
<1>4. CASE EndOfFiles
  BY <1>4 DEF EndOfFiles
<1>5. CASE Finish
  BY <1>5 DEF Finish, CleanUp
<1>6. CASE Report
  BY <1>6 DEF Report
<1>7. CASE CopyFile
  BY <1>7 DEF CopyFile, Ask, Seen
<1>8. CASE CopyDirectory
  BY <1>8 DEF CopyDirectory, Ask, Create
<1>9. CASE DirExists
  BY <1>9 DEF DirExists, DropTarget, Ask
<1>10. CASE DirList
  BY <1>10 DEF DirList, Ask
<1>11. CASE DirNext
  BY <1>11 DEF DirNext
<1>12. CASE DirEnd
  BY <1>12 DEF DirEnd, Ask
<1>13. CASE CopyRegular
  BY <1>13 DEF CopyRegular, Ask
<1>14. CASE RegExists
  BY <1>14 DEF RegExists, DropTarget, Ask
<1>15. CASE RegCreate
  BY <1>15 DEF RegCreate, Create, Ask
<1>16. CASE RegOpen
  BY <1>16 DEF RegOpen, Ask
<1>17. CASE RegLoop
  BY <1>17 DEF RegLoop
<1>18. CASE RegSpinEnds
  BY <1>18 DEF RegSpinEnds
<1>19. CASE RegAttrs
  BY <1>19 DEF RegAttrs, Ask
<1>20. CASE DuplicateSymbolicLink
  BY <1>20 DEF DuplicateSymbolicLink, Ask, FollowSolution
<1>21. CASE CopySymbolicLink
  BY <1>21 DEF CopySymbolicLink, Ask, FollowSolution
<1>22. CASE SymlinkNoTarget
  BY <1>22 DEF SymlinkNoTarget, FollowSolution
<1>23. CASE NewLink
  BY <1>23 DEF NewLink, Ask
<1>24. CASE NewLinkExists
  BY <1>24 DEF NewLinkExists, DropTarget, Ask
<1>25. CASE NewLinkGo
  BY <1>25 DEF NewLinkGo, Create, Ask
<1>26. CASE Return
  BY <1>26 DEF Return
<1>27. CASE Move
  BY <1>27 DEF Move, Ask
<1>28. CASE MoveExists
  BY <1>28 DEF MoveExists, DropTarget, Ask
<1>29. CASE MoveRename
  BY <1>29 DEF MoveRename, Ask
<1>30. CASE MoveByCopy
  BY <1>30 DEF MoveByCopy
<1>31. CASE CopyDone
  BY <1>31 DEF CopyDone, RemoveListed
<1>32. CASE MoveDelete
  BY <1>32 DEF MoveDelete
<1>33. CASE Delete
  BY <1>33 DEF Delete, Ask
<1>34. CASE DeleteEnd
  BY <1>34 DEF DeleteEnd
<1>35. CASE Link
  BY <1>35 DEF Link, Ask
<1>36. CASE LinkExists
  BY <1>36 DEF LinkExists, DropTarget, Ask
<1>37. CASE LinkGo
  BY <1>37 DEF LinkGo, Create, Ask
<1>38. CASE Answer
  BY <1>38 DEF Answer
<1>39. CASE AnswerStop
  BY <1>39 DEF AnswerStop
<1>40. CASE Interrupt
  BY <1>40 DEF Interrupt
<1>41. CASE Killed
  BY <1>41 DEF Killed
<1>42. CASE Done
  BY <1>42 DEF Done, vars
<1>43. CASE UNCHANGED vars
  BY <1>43 DEF vars
<1>44. QED
  BY <1>1, <1>2, <1>3, <1>4, <1>5, <1>6, <1>7, <1>8, <1>9, <1>10, <1>11, <1>12, <1>13, <1>14,
     <1>15, <1>16, <1>17, <1>18, <1>19, <1>20, <1>21, <1>22, <1>23, <1>24, <1>25, <1>26, <1>27,
     <1>28, <1>29, <1>30, <1>31, <1>32, <1>33, <1>34, <1>35, <1>36, <1>37, <1>38, <1>39, <1>40,
     <1>41, <1>42, <1>43 DEF Next, ToolStep, CopyStep, MoveStep


\* Only Move and Delete touch the source, and Move not before the target stands.
LEMMA SourceKeptStep == WalkInv /\ Untouched /\ SourceKept /\ [Next]_vars => SourceKept'
<1> SUFFICES ASSUME WalkInv, Untouched, SourceKept, [Next]_vars PROVE SourceKept'
  OBVIOUS
<1>a. /\ Places /\ Ends /\ pc \in PCs /\ cont \in WorkPCs /\ op' = op /\ op \in Operation
  BY ArgsStay DEF WalkInv, TypeOK, DataTypes
<1>1. ASSUME op' \notin {"Move", "Delete"} PROVE src' = Source
  <2>1. src' = src
    BY <1>1, <1>a, FilesChange DEF FilesMove, Finish, CleanUp, RemoveListed, CopyDirectory,
       DirExists, RegExists,
       RegCreate, RegLoop, NewLinkExists, NewLinkGo, MoveExists, MoveRename, CopyDone, Delete,
       LinkExists, LinkGo,
       fs, Places, Point, MovePCs
  <2>2. QED
    BY <1>1, <1>a, <2>1 DEF SourceKept
<1> DEFINE Region == CopyPCs \union MovePCs \union {"copyDone", "moveDelete"}
<1>2. ASSUME Point' \in Region, NEW n \in Under(Top(cur')) PROVE src'[n] = Source[n]
  <2>1. CASE NextFile
    BY <2>1, NextIsNew DEF NextFile, fs
  <2>2. CASE ~NextFile
    <3>1. Top(cur') = Top(cur)
      BY <2>2, WalkMoves
    <3>2. src' = src /\ Point \in Region
      BY <1>2, <2>2, CopiesFirst
    <3>3. QED
      BY <1>2, <3>1, <3>2 DEF SourceKept
  <2>3. QED
    BY <2>1, <2>2
<1>3. QED
  BY <1>1, <1>2 DEF SourceKept

\* A listed name is a path of one name; what lies under it has it as its first.
LEMMA ListedNames ==
  ASSUME NEW f \in Range(FileList)
  PROVE  /\ f \in Node /\ Len(f) = 1 /\ Top(f) = f
         /\ \A n \in Under(f) : n \in Node /\ Top(n) = f
         /\ \A n \in Node : Top(n) = f => n \in Under(f)
<1>1. f \in Node /\ Len(f) = 1
  BY TreeAssumption DEF Range
<1>2. QED
  BY <1>1, TopOf, UnderOrder

\* In a move within a file system, the only points at work on a name are these.
LEMMA RenamePoints ==
  ASSUME WalkInv, op = "Move", sameFS, Point \in Working
  PROVE  /\ Point \in MovePCs /\ Len(cur) = 1 /\ Top(cur) = cur /\ cur \in Node
         /\ cur \in Range(FileList) /\ idx \in 1..Len(FileList)
<1>1. Places /\ cur \in Node /\ idx \in 0..Len(FileList)
  BY DEF WalkInv, TypeOK, DataTypes
<1>2. Point \in MovePCs
  BY <1>1 DEF Places, Working, MovePCs, LinkPCs
<1>3. Point \notin CopyPCs
  BY <1>2 DEF MovePCs, CopyPCs, AtWork, RegPCs, LinkNodePCs
<1>4. Len(cur) = 1 /\ Top(cur) = cur
  BY <1>1, <1>3, TopOf DEF Places
<1>5. idx \in 1..Len(FileList) /\ FileList[idx] = cur
  BY <1>1, <1>4, PathsInTree DEF Places
<1>6. cur \in Range(FileList)
  BY <1>5, TreeAssumption DEF Range
<1>7. QED
  BY <1>1, <1>2, <1>4, <1>5, <1>6

\* While a name is being moved it is still here, until the rename takes it.
LEMMA HereStays ==
  ASSUME WalkInv, [Next]_vars, op = "Move", sameFS, Point \in MovePCs, NEW f, f = cur, Here(f)
  PROVE  Here(f)' \/ (Gone(f)' /\ Point' = "next")
<1>a. /\ DataTypes /\ cur \in Node /\ dst \in [Node -> Object] /\ src \in [Node -> Object]
      /\ f \in Node
      /\ Under(f) \subseteq Node /\ dst0' = dst0 /\ dst0 \in [Node -> Object]
  BY UnderOrder, ArgsStay DEF WalkInv, TypeOK, DataTypes
<1>b. Point = pc \/ pc = "wait"
  BY DEF Point
<1>1. CASE UNCHANGED fs
  BY <1>1, <1>a DEF Here, fs
<1>2. CASE MoveExists
  <2>1. CASE dst' = dst
    BY <1>2, <1>a, <2>1 DEF MoveExists, Here
  <2>2. CASE DropTarget("moveGo", "DeleteError", "next")
    <3>1. PICK gone \in SUBSET Under(cur) : dst' = Without(dst, gone)
      BY <1>a, <2>2, Dropped
    <3>2. \A n \in Node : dst[n] = "none" => dst'[n] = "none"
      BY <3>1 DEF Without
    <3>3. src' = src
      BY <1>2 DEF MoveExists
    <3>4. QED
      BY <1>a, <3>2, <3>3 DEF Here
  <2>3. QED
    BY <1>2, <2>1, <2>2 DEF MoveExists
<1>3. CASE MoveRename
  <2>1. CASE /\ dst' = [m \in Node |-> IF m \in Under(cur) THEN src[m] ELSE dst[m]]
             /\ src' = Without(src, Under(cur))
             /\ Go("next")
    BY <1>a, <2>1 DEF Here, Gone, Without, Go, Point
  <2>2. QED
    BY <1>1, <1>3, <2>1 DEF MoveRename
<1>4. QED
  BY <1>b, <1>1, <1>2, <1>3, FilesChange DEF MovePCs, FilesMove, Finish, CopyDirectory, DirExists,
     RegExists,
     RegCreate, RegLoop, NewLinkExists, NewLinkGo, CopyDone, Delete, LinkExists, LinkGo

\* Within a file system every listed name is wholly here or wholly gone.
LEMMA HereOrGoneStep == WalkInv /\ Untouched /\ HereOrGone /\ [Next]_vars => HereOrGone'
<1> SUFFICES ASSUME WalkInv, Untouched, HereOrGone, [Next]_vars, op' = "Move", sameFS', ~cleaned'
             PROVE  /\ \A f \in Range(FileList) : Here(f)' \/ Gone(f)'
                    /\ Point' \in MovePCs => Here(cur)'
  BY DEF HereOrGone
<1>a. op = "Move" /\ sameFS /\ dst0' = dst0 /\ ~cleaned
  BY ArgsStay, WalkMoves
<1>b. /\ \A f \in Range(FileList) : Here(f) \/ Gone(f)
      /\ Point \in MovePCs => Here(cur)
  BY <1>a DEF HereOrGone
<1>c. WalkInv'
  BY WalkStep
<1>1. ASSUME NEW f \in Range(FileList) PROVE Here(f)' \/ Gone(f)'
  <2>1. CASE f # Top(cur) \/ Point \notin Working
    <3>1. \A n \in Under(f) : src'[n] = src[n] /\ dst'[n] = dst[n]
      BY <2>1, ListedNames, OthersAlone
    <3>2. QED
      BY <1>a, <1>b, <3>1 DEF Here, Gone
  <2>2. CASE f = Top(cur) /\ Point \in Working
    BY <1>a, <1>b, <2>2, RenamePoints, HereStays
  <2>3. QED
    BY <2>1, <2>2
<1>2. ASSUME Point' \in MovePCs, NEW f, f = cur' PROVE Here(f)'
  <2>1. CASE NextFile
    <3>1. /\ f \in Node /\ \A n \in Under(f) : src[n] = Source[n] /\ dst[n] = dst0[n]
      BY <1>2, <2>1, NextIsNew
    <3>2. dst0[f] = "none" => \A n \in Under(f) : dst0[n] = "none"
      BY <3>1 DEF WalkInv, Trees, Standing
    <3>3. src' = src /\ dst' = dst
      BY <2>1 DEF NextFile, fs
    <3>4. QED
      BY <1>a, <3>1, <3>2, <3>3 DEF Here
  <2>2. CASE ~NextFile
    <3>1. Point' \in Working /\ Point' # "next"
      BY <1>2 DEF Working, MovePCs
    <3>2. Point \in Working
      BY <1>2, <2>2, CopiesFirst DEF Working
    <3>3. Point \in MovePCs /\ Top(cur) = cur
      BY <1>a, <3>2, RenamePoints
    <3>4. f = cur
      <4>1. Top(cur') = cur'
        <5>1. Len(cur') = 1 /\ cur' \in Node
          BY <1>2, <1>c DEF WalkInv, Places, TypeOK, DataTypes, Working, CopyPCs, AtWork, RegPCs,
             LinkNodePCs, MovePCs
        <5>2. QED
          BY <5>1, TopOf
      <4>2. QED
        BY <1>2, <2>2, <3>3, <4>1, WalkMoves
    <3>5. QED
      BY <1>a, <1>b, <3>1, <3>3, <3>4, HereStays
  <2>3. QED
    BY <2>1, <2>2
<1>3. Point' \in MovePCs => Here(cur)'
  BY <1>2 DEF Here
<1>4. QED
  BY <1>1, <1>3

\* A cleanup undoes a copy, a duplicate, a link, and a move within a file system.
LEMMA UndoStep ==
  WalkInv /\ Untouched /\ SourceKept /\ HereOrGone /\ CleanUpUndoes /\ [Next]_vars => CleanUpUndoes'
<1> SUFFICES ASSUME WalkInv, Untouched, SourceKept, HereOrGone, CleanUpUndoes, [Next]_vars, cleaned',
                    \A f \in Range(FileList) : dst0'[f] = "none",
                    Faults \intersect {"remove", "rename"} = {},
                    op' \in {"Copy", "Duplicate", "Link"} \/ (op' = "Move" /\ sameFS')
             PROVE  src' = Source /\ dst' = dst0'
  BY DEF CleanUpUndoes
<1>a. /\ op' = op /\ sameFS' = sameFS /\ dst0' = dst0 /\ src \in [Node -> Object]
      /\ dst \in [Node -> Object]
      /\ dst0 \in [Node -> Object] /\ Source \in [Node -> Object]
  BY ArgsStay DEF WalkInv, TypeOK, DataTypes, Source, Object
<1>1. CASE cleaned
  BY <1>1, <1>a, WalkMoves DEF CleanUpUndoes, fs
<1>2. CASE ~cleaned
  <2>1. Finish
    BY <1>2, FilesChange DEF FilesMove, CopyDirectory, DirExists, RegExists, RegCreate, RegLoop,
       NewLinkExists, NewLinkGo, MoveExists, MoveRename, CopyDone, Delete, LinkExists, LinkGo, fin
  <2>2. CleanUp
    BY <2>1 DEF Finish
  <2>a. \A n \in Node : n \in Listed <=> Top(n) \in Range(FileList)
    BY ListedNames DEF Listed
  <2>b. \A n \in Node : n \notin Listed => src[n] = Source[n] /\ dst[n] = dst0[n]
    <3> SUFFICES ASSUME NEW n \in Node, n \notin Listed PROVE src[n] = Source[n] /\ dst[n] = dst0[n]
      OBVIOUS
    <3>1. idx \in 0..Len(FileList) /\ Len(FileList) \in Nat
      BY PathsInTree DEF WalkInv, TypeOK, DataTypes
    <3>2. \A i \in 1..idx : i \in DOMAIN FileList
      BY <3>1, TreeAssumption
    <3>3. ~Begun(n)
      BY <2>a, <3>2 DEF Begun, Range
    <3>4. QED
      BY <1>2, <3>3 DEF Untouched
  <2>c. \A n \in Listed : n \in Node /\ dst0[n] = "none"
    <3> SUFFICES ASSUME NEW f \in Range(FileList),
    NEW n \in Under(f) PROVE n \in Node /\ dst0[n] = "none"
      BY DEF Listed
    <3>1. f \in Node /\ dst0[f] = "none" /\ n \in Node
      BY <1>a, ListedNames
    <3>2. QED
      BY <3>1 DEF WalkInv, Trees, Standing
  <2>3. CASE op \in {"Copy", "Duplicate", "Link"}
    <3>1. RemoveListed(Range(FileList))
      BY <2>2, <2>3 DEF CleanUp
    <3>2. Range(FileList) \in SUBSET Node
      BY ListedNames
    <3>3. dst' = Without(dst, Listed) /\ src' = src
      BY <3>1, <3>2, Unlisted DEF Listed
    <3>4. src = Source
      BY <2>3 DEF SourceKept
    <3>5. \A n \in Node : dst'[n] = dst0[n]
      BY <2>b, <2>c, <3>3 DEF Without
    <3>6. dst' = dst0
      BY <1>a, <3>3, <3>5 DEF Without
    <3>7. QED
      BY <1>a, <3>3, <3>4, <3>6
  <2>4. CASE op = "Move" /\ sameFS
    <3> DEFINE back == {f \in Range(FileList) : CanRename(dst, src, f)}
    <3>1. /\ src' = [m \in Node |-> IF \E f \in back : m \in Under(f) THEN dst[m] ELSE src[m]]
          /\ dst' = Without(dst, UNION {Under(f) : f \in back})
      <4>1. MoveBackListed /\ "rename" \notin Faults
        BY <2>2, <2>4 DEF CleanUp
      <4>2. {f \in Range(FileList) : sameFS /\ CanRename(dst, src, f)} = back
        BY <2>4
      <4>3. QED
        BY <4>1, <4>2 DEF MoveBackListed
    <3>2. \A f \in Range(FileList) : Here(f) \/ Gone(f)
      BY <1>2, <2>4 DEF HereOrGone
    <3>3. ASSUME NEW f \in back PROVE \A n \in Under(f) : dst[n] = Source[n]
      <4>1. f \in Range(FileList) /\ dst[f] # "none" /\ f \in Under(f) /\ dst0[f] = "none"
        BY <1>a, ListedNames, UnderOrder DEF CanRename
      <4>2. ~Here(f)
        BY <4>1 DEF Here
      <4>3. QED
        BY <3>2, <4>1, <4>2 DEF Gone
    <3>4. ASSUME NEW f \in Range(FileList), f \notin back
          PROVE  \A n \in Under(f) : src[n] = Source[n] /\ dst[n] = "none"
      <4>1. f \in Under(f) /\ f \in Node /\ dst0[f] = "none"
        BY <1>a, ListedNames, UnderOrder
      <4>2. CASE Here(f)
        BY <4>1, <4>2 DEF Here
      <4>3. CASE Gone(f)
        <5>1. ~CanRename(dst, src, f)
          BY <3>4
        <5>2. dst[f] = "none"
          BY <4>1, <4>3, <5>1, UnderOrder DEF CanRename, Gone
        <5>3. Source[f] = "none"
          BY <4>1, <4>3, <5>2 DEF Gone
        <5>4. \A n \in Under(f) : Source[n] = "none"
          BY <4>1, <5>3, SourceTree DEF Standing
        <5>5. QED
          BY <4>3, <5>4 DEF Gone
      <4>4. QED
        BY <3>2, <4>2, <4>3
    <3>5. \A n \in Node : (\E f \in back : n \in Under(f)) => src'[n] = Source[n] /\ dst'[n] = "none" /\ n \in Listed
      <4> HIDE DEF back
      <4>1. back \subseteq Range(FileList)
        BY DEF back
      <4>2. QED
        BY <3>1, <3>3, <4>1 DEF Without, Listed
    <3>6. ASSUME NEW n \in Node, ~ \E f \in back : n \in Under(f)
          PROVE  src'[n] = Source[n] /\ dst'[n] = dst0[n]
      <4>1. src'[n] = src[n] /\ dst'[n] = dst[n]
        <5> HIDE DEF back
        <5>1. QED
          BY <3>1, <3>6 DEF Without
      <4>2. CASE n \notin Listed
        BY <2>b, <4>1, <4>2
      <4>3. CASE n \in Listed
        <5>1. PICK f \in Range(FileList) : n \in Under(f)
          BY <4>3 DEF Listed
        <5>2. f \notin back
          BY <3>6, <5>1
        <5>3. QED
          BY <2>c, <3>4, <4>1, <4>3, <5>1, <5>2
      <4>4. QED
        BY <4>2, <4>3
    <3>7. \A n \in Node : src'[n] = Source[n] /\ dst'[n] = dst0[n]
      <4> HIDE DEF back
      <4>1. QED
        BY <2>c, <3>5, <3>6
    <3>8. src' = Source /\ dst' = dst0
      <4> HIDE DEF back
      <4>1. QED
        BY <1>a, <3>1, <3>7 DEF Without
    <3>9. QED
      BY <1>a, <3>8
  <2>5. QED
    BY <1>a, <2>3, <2>4
<1>3. QED
  BY <1>1, <1>2

\* The invariant of what has been touched.
TouchInv == Untouched /\ SourceKept /\ HereOrGone

\* It holds when the tool starts.
LEMMA TouchInit == Init => TouchInv
<1> SUFFICES ASSUME Init PROVE TouchInv
  OBVIOUS
<1>1. Point = "boot" /\ ~cleaned /\ src = Source /\ dst = dst0 /\ told = [n \in Node |-> {}]
  BY DEF Init, Point
<1>2. Untouched /\ SourceKept
  BY <1>1, UnderOrder DEF Untouched, SourceKept, CopyPCs, AtWork, RegPCs, LinkNodePCs, MovePCs
<1>3. \A f \in Range(FileList) : Here(f)
  <2> SUFFICES ASSUME NEW f \in Range(FileList), NEW n \in Under(f)
               PROVE  src[n] = Source[n] /\ (dst0[f] = "none" => dst[n] = "none")
    BY DEF Here
  <2>1. Standing(dst0) /\ f \in Node
    BY OldStands, ListedNames DEF Init
  <2>2. QED
    BY <1>1, <2>1 DEF Standing
<1>4. QED
  BY <1>1, <1>2, <1>3 DEF TouchInv, HereOrGone, MovePCs

\* What the loop over the list has not come to is untouched, the source is touched by
\* Move and Delete alone, and a move within a file system leaves each name wholly at
\* one end.
THEOREM TouchInvariance == Spec => []TouchInv
<1>1. WalkInv /\ TouchInv /\ [Next]_vars => TouchInv'
  BY UntouchedStep, SourceKeptStep, HereOrGoneStep DEF TouchInv
<1>2. QED
  BY <1>1, TouchInit, WalkInvariance, PTL DEF Spec

\* Where no listed name stood at the destination and removing and renaming work, a
\* cleanup (CleanUpAfterCopy, -Duplicate, -Link, -Move) leaves both directories as the
\* tool found them, wherever the stop fell.
THEOREM CleanUpIsUndo == Spec => []CleanUpUndoes
<1>1. Init => CleanUpUndoes
  BY DEF Init, CleanUpUndoes
<1>2. WalkInv /\ TouchInv /\ CleanUpUndoes /\ [Next]_vars => CleanUpUndoes'
  BY UndoStep DEF TouchInv
<1>3. QED
  BY <1>1, <1>2, WalkInvariance, TouchInvariance, PTL DEF Spec
===============================================================================
