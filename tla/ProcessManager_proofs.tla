------------------------- MODULE ProcessManager_proofs -------------------------
(* Proofs about ProcessManager for all sets of operations and applications.  *)
EXTENDS ProcessManager, TLAPS

\* Past terminateAllBGOperations there is no operation left, and none can be
\* created before the session is interactive again.
NoOperationsLeft == stage \in {"apps", "refused", "quit"} => operations = {}

\* The two flags say how far the log out has got.
Flags ==
  /\ isQuitting <=> stage \notin {"idle", "confirm"}
  /\ workspaceQuitting <=> stage \in {"apps", "quit"}

\* An alert belongs to an open question, and a file operation is Stopped only
\* when its tool has ended.
OpStates ==
  /\ \A o \in Op : state[o] = "Alert" => asked[o]
  /\ \A o \in Mover : life[o] = "live" => state[o] # "Stopped"

IInv == TypeOK /\ NoOperationsLeft /\ Flags /\ OpStates

\* The invariant holds in the first state.
LEMMA InitInv == Init => IInv
<1> SUFFICES ASSUME Init PROVE IInv
  OBVIOUS
<1>1. operations = {o \in Op : life[o] \in {"live", "timer"}}
  BY DEF Init
<1>2. TypeOK
  <2>1. asks \in [Op -> 0..MaxAsks]
    BY ManagerAssumption DEF Init
  <2>2. asked \in [Op -> BOOLEAN]
    BY DEF Init
  <2>3. applications \subseteq App /\ alive \subseteq App /\ gone \subseteq App
    BY ManagerAssumption DEF Init
  <2>4. QED
    BY <1>1, <2>1, <2>2, <2>3 DEF Init, TypeOK
<1>3. OpStates
  BY DEF Init, OpStates, Op
<1>4. NoOperationsLeft /\ Flags
  BY DEF Init, NoOperationsLeft, Flags
<1>5. QED
  BY <1>2, <1>3, <1>4 DEF IInv

\* The handlers of one operation keep the invariant.
LEMMA OperationStep ==
  ASSUME IInv, NEW o \in Op,
         \/ CreateOperation(o) \/ ToolAsks(o) \/ ShowAlert(o) \/ AnswerAlert(o)
         \/ UserStop(o) \/ TaskTerminated(o) \/ DestroyOperation(o)
  PROVE  IInv'
<1> USE ManagerAssumption
        DEF IInv, TypeOK, NoOperationsLeft, Flags, OpStates, Op,
            opVars, appVars, quitVars, Interactive, Looping
<1>1. CASE CreateOperation(o)
  BY <1>1 DEF CreateOperation
<1>2. CASE ToolAsks(o)
  BY <1>2 DEF ToolAsks
<1>3. CASE ShowAlert(o)
  BY <1>3 DEF ShowAlert
<1>4. CASE AnswerAlert(o)
  BY <1>4 DEF AnswerAlert
<1>5. CASE UserStop(o)
  BY <1>5 DEF UserStop, StopAll
<1>6. CASE TaskTerminated(o)
  BY <1>6 DEF TaskTerminated
<1>7. CASE DestroyOperation(o)
  BY <1>7 DEF DestroyOperation
<1>8. QED
  BY <1>1, <1>2, <1>3, <1>4, <1>5, <1>6, <1>7

\* So does the news of an application.
LEMMA ApplicationStep ==
  ASSUME IInv, NEW a \in App,
         ApplicationDidLaunch(a) \/ ApplicationEnds(a) \/ ApplicationDidTerminate(a)
  PROVE  IInv'
BY DEF IInv, TypeOK, NoOperationsLeft, Flags, OpStates, opVars, appVars, quitVars,
       ApplicationDidLaunch, ApplicationEnds, ApplicationDidTerminate

\* So does every step of applicationShouldTerminate:.
LEMMA QuittingStep == IInv /\ Quitting => IInv'
<1> SUFFICES ASSUME IInv, Quitting PROVE IInv'
  OBVIOUS
<1> USE DEF IInv, TypeOK, NoOperationsLeft, Flags, OpStates, opVars, appVars, quitVars
<1>1. CASE LogOut
  BY <1>1 DEF LogOut
<1>2. CASE CancelLogOut
  BY <1>2 DEF CancelLogOut, Abandon
<1>3. CASE ConfirmLogOut
  BY <1>3 DEF ConfirmLogOut
<1>4. CASE DoNotStop
  BY <1>4 DEF DoNotStop
<1>5. CASE StopAndQuit
  BY <1>5, ManagerAssumption DEF StopAndQuit, StopAll, Op
<1>6. CASE WaitEnds
  BY <1>6 DEF WaitEnds, Abandon
<1>7. CASE Dismiss
  BY <1>7 DEF Dismiss, Abandon
<1>8. CASE Quit
  BY <1>8 DEF Quit
<1>9. ASSUME NEW a \in App, TerminateApp(a) PROVE IInv'
  BY <1>9 DEF TerminateApp
<1>10. ASSUME NEW a \in App, AppRefuses(a) PROVE IInv'
  BY <1>10 DEF AppRefuses
<1>11. QED
  BY <1>1, <1>2, <1>3, <1>4, <1>5, <1>6, <1>7, <1>8, <1>9, <1>10 DEF Quitting

\* The invariant is inductive.
LEMMA InvStep == IInv /\ [Next]_vars => IInv'
<1> SUFFICES ASSUME IInv, [Next]_vars PROVE IInv'
  OBVIOUS
<1>1. CASE Operations
  BY <1>1, OperationStep DEF Operations
<1>2. CASE Applications
  BY <1>2, ApplicationStep DEF Applications
<1>3. CASE Quitting
  BY <1>3, QuittingStep
<1>4. CASE UNCHANGED vars
  BY <1>4 DEF vars, opVars, appVars, quitVars, IInv, TypeOK, NoOperationsLeft, Flags, OpStates
<1>5. QED
  BY <1>1, <1>2, <1>3, <1>4 DEF Next, Ended

\* Hence it holds throughout every behaviour of the handlers.
THEOREM Invariance == Spec => []IInv
BY InitInv, InvStep, PTL DEF Spec

\* ProcessManager's list holds an operation from its creation to its
\* destruction, and every variable keeps its type.
THEOREM TypeCorrect == Spec => []TypeOK
<1>1. IInv => TypeOK
  BY DEF IInv
<1>2. QED
  BY <1>1, Invariance, PTL

\* However many operations and applications there are, no operation is cut
\* short by the end of the session.
THEOREM CleanQuit == Spec => []NothingRunsAtQuit
<1>1. IInv => NothingRunsAtQuit
  BY DEF IInv, TypeOK, NoOperationsLeft, NothingRunsAtQuit
<1>2. QED
  BY <1>1, Invariance, PTL

\* Every way to give up a log out resets both quitting flags.
THEOREM UsableSession == Spec => []SessionUsable
<1>1. IInv => SessionUsable
  BY DEF IInv, Flags, SessionUsable
<1>2. QED
  BY <1>1, Invariance, PTL

\* A step of an operation is a step of BGOperation, and leaves the others alone.
LEMMA OneOperationBehaves ==
  ASSUME IInv, NEW o \in Op, NEW m \in Mover,
         \/ CreateOperation(o) \/ ToolAsks(o) \/ ShowAlert(o) \/ AnswerAlert(o)
         \/ UserStop(o) \/ TaskTerminated(o) \/ DestroyOperation(o)
  PROVE  OperationOf(m)!Next \/ UNCHANGED OperationOf(m)!vars
<1> USE DEF IInv, TypeOK, OpStates, Op, OperationOf!Next, OperationOf!vars
<1>1. CASE CreateOperation(o)
  BY <1>1 DEF CreateOperation, OperationOf!Create
<1>2. CASE ToolAsks(o)
  BY <1>2 DEF ToolAsks, OperationOf!Ask
<1>3. CASE ShowAlert(o)
  BY <1>3 DEF ShowAlert, OperationOf!Show
<1>4. CASE AnswerAlert(o)
  BY <1>4 DEF AnswerAlert, OperationOf!Answer
<1>5. CASE UserStop(o)
  BY <1>5 DEF UserStop, StopAll, OperationOf!Stop
<1>6. CASE TaskTerminated(o)
  BY <1>6 DEF TaskTerminated, OperationOf!End
<1>7. CASE DestroyOperation(o)
  BY <1>7 DEF DestroyOperation, OperationOf!Destroy
<1>8. QED
  BY <1>1, <1>2, <1>3, <1>4, <1>5, <1>6, <1>7

\* Of the steps of a log out only "Stop and quit" touches an operation.
LEMMA QuittingBehaves ==
  ASSUME IInv, NEW m \in Mover, Quitting
  PROVE  OperationOf(m)!Next \/ UNCHANGED OperationOf(m)!vars
<1>1. CASE StopAndQuit
  BY <1>1 DEF StopAndQuit, StopAll, IInv, TypeOK, Op, OperationOf!Next, OperationOf!Stop,
              OperationOf!vars
<1>2. CASE ~StopAndQuit
  <2>1. UNCHANGED <<state, asked, life>>
    BY <1>2 DEF Quitting, LogOut, CancelLogOut, ConfirmLogOut, DoNotStop, WaitEnds, Dismiss,
                Quit, TerminateApp, AppRefuses, opVars
  <2>2. QED
    BY <2>1 DEF OperationOf!vars
<1>3. QED
  BY <1>1, <1>2

\* However many operations run and however often the user logs out, each file
\* operation goes through the states that BGOperation allows, which are those
\* of the FileMover object.
THEOREM EachOperationBehaves == Spec => OperationsBehave
<1>1. IInv /\ [Next]_vars =>
        [\A o \in Mover : OperationOf(o)!Next \/ UNCHANGED OperationOf(o)!vars]_vars
  <2> SUFFICES ASSUME IInv, Next, NEW m \in Mover
               PROVE  OperationOf(m)!Next \/ UNCHANGED OperationOf(m)!vars
    OBVIOUS
  <2>1. CASE Operations
    BY <2>1, OneOperationBehaves DEF Operations
  <2>2. CASE Applications
    <3>1. UNCHANGED <<state, asked, life>>
      BY <2>2 DEF Applications, ApplicationDidLaunch, ApplicationEnds,
                  ApplicationDidTerminate, opVars
    <3>2. QED
      BY <3>1 DEF OperationOf!vars
  <2>3. CASE Quitting
    BY <2>3, QuittingBehaves
  <2>4. CASE Ended
    BY <2>4 DEF Ended, vars, opVars, OperationOf!vars
  <2>5. QED
    BY <2>1, <2>2, <2>3, <2>4 DEF Next
<1>2. QED
  BY <1>1, Invariance, PTL DEF Spec, OperationsBehave
================================================================================
