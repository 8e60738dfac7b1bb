---------------------------- MODULE ProcessManager ----------------------------
(***************************************************************************)
(* The ProcessManager of the Workspace and the end of a session: the list  *)
(* of background operations and of running applications, and the path of   *)
(* applicationShouldTerminate: through terminateAllBGOperations and        *)
(* terminateAllApps.                                                       *)
(*                                                                         *)
(* While a panel is up, or while one of these methods waits, no click      *)
(* reaches another window; the run loop of terminateAllBGOperations serves *)
(* timers, pipes and notifications but no window events.  The window       *)
(* manager's thread reports X applications at any time, and distributed    *)
(* notifications are also served while terminate: waits for its reply.     *)
(***************************************************************************)
EXTENDS FiniteSets, Naturals

CONSTANTS
  Mover,       \* FileMover operations
  Sizer,       \* Sizer operations
  App,         \* applications, by name
  XApp,        \* those flagged IsXWindowApplication
  SystemApp,   \* Workspace and Login
  MaxAsks      \* bound: questions per file operation

Op == Mover \union Sizer

ASSUME ManagerAssumption ==
  /\ Mover \intersect Sizer = {}
  /\ XApp \subseteq App /\ SystemApp \subseteq App /\ XApp \intersect SystemApp = {}
  /\ MaxAsks \in Nat

VARIABLES
  operations,          \* ProcessManager: registered operations
  state, asked, life,  \* per operation: see BGOperation
  asks,                \* per operation: questions so far
  applications,        \* ProcessManager: names of the running applications
  alive,               \* the applications that really run
  gone,                \* those whose termination notice is on its way
  stage,               \* where applicationShouldTerminate: is
  success,             \* terminateAllBGOperations: its result
  todo,                \* terminateAllApps: what is left of _appsCopy
  isQuitting, workspaceQuitting

opVars   == <<operations, state, asked, life, asks>>
appVars  == <<applications, alive, gone>>
quitVars == <<stage, success, todo, isQuitting, workspaceQuitting>>
vars     == <<opVars, appVars, quitVars>>

\* Where clicks are served, and where the default run loop is.
Interactive == stage = "idle"
Looping == stage \in {"idle", "bgWait"}
Notified(a) == Looping \/ stage = "apps" \/ (a \in XApp /\ stage # "quit")

-------------------------------------------------------------------------------
(* Background operations *)

\* BGOperation's init posts WMOperationDidCreateNotification.
CreateOperation(o) ==
  /\ Interactive
  /\ life[o] = "unborn"
  /\ life' = [life EXCEPT ![o] = "live"]
  /\ state' = [state EXCEPT ![o] = "Running"]
  /\ operations' = operations \union {o}
  /\ UNCHANGED <<asked, asks, appVars, quitVars>>

ToolAsks(o) ==
  /\ o \in Mover
  /\ life[o] = "live"
  /\ ~asked[o] /\ asks[o] < MaxAsks
  /\ asked' = [asked EXCEPT ![o] = TRUE]
  /\ asks' = [asks EXCEPT ![o] = @ + 1]
  /\ UNCHANGED <<operations, state, life, appVars, quitVars>>

ShowAlert(o) ==
  /\ Looping
  /\ life[o] = "live" /\ asked[o] /\ state[o] # "Alert"
  /\ state' = [state EXCEPT ![o] = "Alert"]
  /\ UNCHANGED <<operations, asked, life, asks, appVars, quitVars>>

AnswerAlert(o) ==
  /\ Interactive
  /\ state[o] = "Alert"
  /\ asked' = [asked EXCEPT ![o] = FALSE]
  /\ \E s \in {"Running", "Stopping"} : state' = [state EXCEPT ![o] = s]
  /\ UNCHANGED <<operations, life, asks, appVars, quitVars>>

\* stop: of FileMover (not suspended) and of Sizer.
StopAll(ops) ==
  /\ state' = [o \in Op |-> IF o \notin ops THEN state[o]
                            ELSE IF o \in Mover THEN "Stopping" ELSE "Stopped"]
  /\ asked' = [o \in Op |-> asked[o] /\ ~(o \in ops /\ state[o] = "Alert")]

UserStop(o) ==
  /\ Interactive
  /\ life[o] = "live" /\ state[o] = "Running"
  /\ StopAll({o})
  /\ UNCHANGED <<operations, life, asks, appVars, quitVars>>

\* Mutant of TaskTerminated: an operation with an open question ends too.
TaskTerminatedAsking(o) ==
  /\ Looping
  /\ life[o] = "live"
  /\ state' = [state EXCEPT ![o] = "Completed"]
  /\ life' = [life EXCEPT ![o] = "timer"]
  /\ UNCHANGED <<operations, asked, asks, appVars, quitVars>>

\* taskTerminated of FileMover and of Sizer: the timer is scheduled.
TaskTerminated(o) ==
  /\ Looping
  /\ life[o] = "live" /\ ~asked[o]
  /\ state' = [state EXCEPT ![o] =
                 IF @ \in {"Stopping", "Stopped"} THEN "Stopped" ELSE "Completed"]
  /\ life' = [life EXCEPT ![o] = "timer"]
  /\ UNCHANGED <<operations, asked, asks, appVars, quitVars>>

\* Mutant of DestroyOperation: the operation is not taken off the list.
DestroyKeepsListed(o) ==
  /\ Looping
  /\ life[o] = "timer"
  /\ life' = [life EXCEPT ![o] = "dead"]
  /\ UNCHANGED <<operations, state, asked, asks, appVars, quitVars>>

\* WMOperationWillDestroyNotification.
DestroyOperation(o) ==
  /\ Looping
  /\ life[o] = "timer"
  /\ life' = [life EXCEPT ![o] = "dead"]
  /\ operations' = operations \ {o}
  /\ UNCHANGED <<state, asked, asks, appVars, quitVars>>

-------------------------------------------------------------------------------
(* Applications *)

\* NSWorkspaceDidLaunchApplicationNotification.  An application started while
\* terminateAllApps runs is not in _appsCopy.
ApplicationDidLaunch(a) ==
  /\ Notified(a)
  /\ a \notin alive /\ a \notin gone
  /\ alive' = alive \union {a}
  /\ applications' = applications \union {a}
  /\ UNCHANGED <<opVars, gone, quitVars>>

ApplicationEnds(a) ==
  /\ a \in alive \ SystemApp
  /\ alive' = alive \ {a}
  /\ gone' = gone \union {a}
  /\ UNCHANGED <<opVars, applications, quitVars>>

\* NSWorkspaceDidTerminateApplicationNotification.
ApplicationDidTerminate(a) ==
  /\ Notified(a)
  /\ a \in gone
  /\ gone' = gone \ {a}
  /\ applications' = IF workspaceQuitting THEN applications ELSE applications \ {a}
  /\ UNCHANGED <<opVars, alive, quitVars>>

-------------------------------------------------------------------------------
(* applicationShouldTerminate: *)

\* "Do you really want to log out?"
LogOut ==
  /\ stage = "idle"
  /\ stage' = "confirm"
  /\ UNCHANGED <<opVars, appVars, success, todo, isQuitting, workspaceQuitting>>

\* The return to the session: NSTerminateCancel.
Abandon ==
  /\ stage' = "idle"
  /\ isQuitting' = FALSE

CancelLogOut ==
  /\ stage = "confirm"
  /\ Abandon
  /\ UNCHANGED <<opVars, appVars, success, todo, workspaceQuitting>>

\* Log out or Power off; terminateAllBGOperations returns at once if it can.
ConfirmLogOut ==
  /\ stage = "confirm"
  /\ isQuitting' = TRUE
  /\ stage' = IF operations = {} THEN "apps" ELSE "bgPanel"
  /\ IF operations = {}
       THEN todo' = applications /\ workspaceQuitting' = TRUE
       ELSE UNCHANGED <<todo, workspaceQuitting>>
  /\ UNCHANGED <<opVars, appVars, success>>

\* "Cancel", and "Review operations": the panel it would show is nil while
\* isQuitting is set.
DoNotStop ==
  /\ stage = "bgPanel"
  /\ stage' = "bgWait"
  /\ success' = FALSE
  /\ UNCHANGED <<opVars, appVars, todo, isQuitting, workspaceQuitting>>

StopAndQuit ==
  /\ stage = "bgPanel"
  /\ StopAll(operations)
  /\ stage' = "bgWait"
  /\ success' = TRUE
  /\ UNCHANGED <<operations, life, asks, appVars, todo, isQuitting, workspaceQuitting>>

\* Mutant of WaitEnds: the operations are told to stop but not waited for.
WaitNoLonger ==
  /\ stage = "bgWait"
  /\ IF success
       THEN stage' = "apps" /\ todo' = applications /\ workspaceQuitting' = TRUE
            /\ UNCHANGED isQuitting
       ELSE Abandon /\ UNCHANGED <<todo, workspaceQuitting>>
  /\ UNCHANGED <<opVars, appVars, success>>

\* "Wait for operations to terminate", whatever the answer was.
WaitEnds ==
  /\ stage = "bgWait"
  /\ operations = {}
  /\ IF success
       THEN stage' = "apps" /\ todo' = applications /\ workspaceQuitting' = TRUE
            /\ UNCHANGED isQuitting
       ELSE Abandon /\ UNCHANGED <<todo, workspaceQuitting>>
  /\ UNCHANGED <<opVars, appVars, success>>

\* One turn of the loop of terminateAllApps: an X application (killed, unless
\* its PID is -1), one that cannot be reached and one that ends on terminate:
\* are taken off the list.
TerminateApp(a) ==
  /\ stage = "apps"
  /\ a \in todo
  /\ todo' = todo \ {a}
  /\ IF a \in SystemApp THEN UNCHANGED appVars
     ELSE /\ applications' = applications \ {a}
          /\ alive' \in {alive, alive \ {a}}
          /\ gone' = gone \union (alive \ alive')
  /\ UNCHANGED <<opVars, stage, success, isQuitting, workspaceQuitting>>

\* Mutant of AppRefuses: _workspaceQuitting stays set.
AppRefusesForGood(a) ==
  /\ stage = "apps" /\ a \in (todo \intersect alive) \ (XApp \union SystemApp)
  /\ stage' = "refused"
  /\ UNCHANGED <<opVars, appVars, success, todo, isQuitting, workspaceQuitting>>

\* terminate: returns, so the application ignored it, and a panel says so.
AppRefuses(a) ==
  /\ stage = "apps"
  /\ a \in (todo \intersect alive) \ (XApp \union SystemApp)
  /\ workspaceQuitting' = FALSE
  /\ stage' = "refused"
  /\ UNCHANGED <<opVars, appVars, success, todo, isQuitting>>

\* "Some application terminate power off process."
Dismiss ==
  /\ stage = "refused"
  /\ Abandon
  /\ UNCHANGED <<opVars, appVars, success, todo, workspaceQuitting>>

Quit ==
  /\ stage = "apps"
  /\ todo = {}
  /\ stage' = "quit"
  /\ UNCHANGED <<opVars, appVars, success, todo, isQuitting, workspaceQuitting>>

-------------------------------------------------------------------------------

Init ==
  /\ operations = {}
  /\ state = [o \in Op |-> "Prepare"] /\ asked = [o \in Op |-> FALSE]
  /\ life = [o \in Op |-> "unborn"] /\ asks = [o \in Op |-> 0]
  /\ applications = SystemApp /\ alive = SystemApp /\ gone = {}
  /\ stage = "idle" /\ success = FALSE /\ todo = {}
  /\ isQuitting = FALSE /\ workspaceQuitting = FALSE

Operations == \E o \in Op : \/ CreateOperation(o) \/ ToolAsks(o) \/ ShowAlert(o)
                           \/ AnswerAlert(o) \/ UserStop(o) \/ TaskTerminated(o)
                           \/ DestroyOperation(o)
Applications == \E a \in App : \/ ApplicationDidLaunch(a) \/ ApplicationEnds(a)
                              \/ ApplicationDidTerminate(a)
Quitting == \/ LogOut \/ CancelLogOut \/ ConfirmLogOut \/ DoNotStop \/ StopAndQuit
            \/ WaitEnds \/ Dismiss \/ Quit
            \/ \E a \in App : TerminateApp(a) \/ AppRefuses(a)
Ended == stage = "quit" /\ UNCHANGED vars

Next == Operations \/ Applications \/ Quitting \/ Ended

Spec == Init /\ [][Next]_vars

\* The run loop serves every event, tools end, the user answers panels and,
\* where the windows react, alerts.
FairSpec ==
  /\ Spec
  /\ \A o \in Op : /\ WF_vars(ShowAlert(o)) /\ SF_vars(AnswerAlert(o))
                   /\ WF_vars(TaskTerminated(o)) /\ WF_vars(DestroyOperation(o))
  /\ WF_vars(CancelLogOut \/ ConfirmLogOut) /\ WF_vars(DoNotStop \/ StopAndQuit)
  /\ WF_vars(WaitEnds) /\ WF_vars(Dismiss) /\ WF_vars(Quit)
  /\ WF_vars(\E a \in App : TerminateApp(a) \/ AppRefuses(a))

-------------------------------------------------------------------------------
(* Properties *)

\* Every variable has its type; an operation is listed exactly from its
\* creation to its destruction.
TypeOK ==
  /\ operations = {o \in Op : life[o] \in {"live", "timer"}}
  /\ state \in [Op -> {"Prepare", "Running", "Alert", "Stopping", "Stopped", "Completed"}]
  /\ asked \in [Op -> BOOLEAN] /\ life \in [Op -> {"unborn", "live", "timer", "dead"}]
  /\ asks \in [Op -> 0..MaxAsks]
  /\ applications \subseteq App /\ alive \subseteq App /\ gone \subseteq App
  /\ stage \in {"idle", "confirm", "bgPanel", "bgWait", "apps", "refused", "quit"}
  /\ success \in BOOLEAN /\ todo \subseteq App
  /\ isQuitting \in BOOLEAN /\ workspaceQuitting \in BOOLEAN

\* No file operation is cut short by the end of the session.
NothingRunsAtQuit ==
  stage = "quit" => \A o \in Op : life[o] \in {"unborn", "dead"}

\* A log out that was given up leaves a session that works: the panels can
\* be had again and terminated applications are noticed.
SessionUsable ==
  stage = "idle" => ~isQuitting /\ ~workspaceQuitting

\* Each file operation is one that FileMoverOp implements.
OperationOf(o) == INSTANCE BGOperation WITH
  state <- state[o], asked <- asked[o], life <- life[o]

OperationsBehave ==
  [][\A o \in Mover : OperationOf(o)!Next \/ UNCHANGED OperationOf(o)!vars]_vars

-------------------------------------------------------------------------------
(* What a panel says, and the code does not do *)

\* "Do you want to stop all operations and quit?"  Cancel, Review operations,
\* Stop and quit: whichever it is, the log out goes on or is given up.
LogOutGoesOn == (stage = "bgWait") ~> (stage # "bgWait")
===============================================================================
