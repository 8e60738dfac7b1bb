------------------------------ MODULE FileMoverOp ------------------------------
(***************************************************************************)
(* The Workspace side of a file operation (Operations/FileMover.m): one    *)
(* object that runs the Sizer tool and then the FileMover tool, shows the  *)
(* tool's alerts, sends the user's answers back and is destroyed one       *)
(* second after the tool has ended.  The tool is the protocol of           *)
(* ToolProtocol, joined by the two pipes; every handler of this object     *)
(* runs in the Workspace's main run loop, in any order the events arrive.  *)
(***************************************************************************)
EXTENDS Naturals, Sequences

CONSTANTS
  Problem, Solutions,  \* as in ToolProtocol
  MaxQuestions,        \* bound: alerts the tool raises
  MaxStops,            \* bound: stop: messages from ProcessManager
  MayPause,            \* does the user use the Suspend button?
  MaySplit             \* may a read end in the middle of an alert line?

ASSUME OpAssumption ==
  /\ {"none", "0", "1"} \intersect Problem = {}
  /\ Solutions \in [Problem -> SUBSET {"SkipFile", "NewLink", "CopyOriginal",
                                       "IgnoreProblem", "OverwriteFile"}]
  /\ MaxQuestions \in Nat /\ MaxStops \in Nat
  /\ MayPause \in BOOLEAN /\ MaySplit \in BOOLEAN

VARIABLES
  state,               \* OperationState
  problem,             \* the OperationProblem shown, "none" for NoProblem
  isSizing, isSuspended,
  armed,               \* waitForDataInBackgroundAndNotify is pending
  notified,            \* termination notices handled: "none", "sizer", "tool"
  life,                \* "live", "timer" (destroyOperation is scheduled), "dead"
  sizer,               \* the Sizer process: "run" or "exit"
  halted,              \* the current process has been sent SIGSTOP
  phase, question, always, stopped, report,   \* the tool: see ToolProtocol
  stdout,              \* lines the tool printed and Workspace has not read
  split,               \* the first of them has been read in part
  stdin,               \* letters the tool has not read
  nq, ns               \* questions raised, stop: messages so far

opVars   == <<state, problem, isSizing, isSuspended, armed, notified, life>>
toolVars == <<phase, question, always, stopped, report>>
pipes    == <<stdout, split, stdin>>
counts   == <<nq, ns>>
vars     == <<opVars, sizer, halted, toolVars, pipes, counts>>

Tool == INSTANCE ToolProtocol

Letter == [sol : {"SkipFile", "NewLink", "CopyOriginal", "IgnoreProblem",
                  "OverwriteFile", "stop"}, all : BOOLEAN]
Stop == [sol |-> "stop", all |-> FALSE]

-------------------------------------------------------------------------------
(* The processes *)

SizerExits ==
  /\ sizer = "run" /\ ~halted
  /\ sizer' = "exit"
  /\ UNCHANGED <<opVars, halted, toolVars, pipes, counts>>

ToolBegins ==
  /\ phase \in {"boot", "start"} /\ ~halted
  /\ Tool!InstallHandler \/ Tool!Start
  /\ UNCHANGED <<opVars, sizer, halted, pipes, counts>>

ToolAsks ==
  /\ phase = "work" /\ ~halted
  /\ nq < MaxQuestions
  /\ \E p \in Problem : Tool!Question(p) /\ stdout' = Append(stdout, p)
  /\ nq' = nq + 1
  /\ UNCHANGED <<opVars, sizer, halted, split, stdin, ns>>

\* A letter that does not answer the question is skipped.
ToolReads ==
  /\ phase = "ask" /\ ~halted
  /\ stdin # <<>>
  /\ stdin' = Tail(stdin)
  /\ LET a == Head(stdin) IN
       IF a.sol = "stop" THEN Tool!ReplyStop
       ELSE IF a.sol \in Solutions[question] THEN Tool!Reply(a.sol, a.all)
       ELSE UNCHANGED toolVars
  /\ UNCHANGED <<opVars, sizer, halted, stdout, split, counts>>

ToolExits ==
  /\ phase = "work" /\ ~halted
  /\ Tool!Exit
  /\ stdout' = Append(stdout, report')
  /\ UNCHANGED <<opVars, sizer, halted, split, stdin, counts>>

-------------------------------------------------------------------------------
(* readInput: *)

\* Of the lines handled by one read, the last alert stays on the screen.
HasAlert(lines) == \E i \in DOMAIN lines : lines[i] \in Problem
LastAlert(lines) ==
  lines[CHOOSE i \in DOMAIN lines : /\ lines[i] \in Problem
                                   /\ \A j \in DOMAIN lines : lines[j] \in Problem => j <= i]

TaskRunning == IF isSizing THEN sizer = "run" ELSE phase \notin {"none", "exit"}

\* Some or all of the lines are read; the last one read may be incomplete,
\* and is then shown now and once more when its end arrives.
ReadInput ==
  /\ armed /\ ~isSizing /\ life # "dead"
  /\ stdout # <<>>
  /\ \E k \in 1..Len(stdout), part \in {FALSE, MaySplit} :
       /\ part => stdout[k] \in Problem /\ ~(split /\ k = 1)
       /\ IF HasAlert(SubSeq(stdout, 1, k))
            THEN problem' = LastAlert(SubSeq(stdout, 1, k)) /\ state' = "Alert"
            ELSE UNCHANGED <<problem, state>>
       /\ stdout' = SubSeq(stdout, (IF part THEN k ELSE k + 1), Len(stdout))
       /\ split' = part
  /\ armed' = TaskRunning
  /\ UNCHANGED <<isSizing, isSuspended, notified, life, sizer, halted, toolVars,
                 stdin, counts>>

-------------------------------------------------------------------------------
(* The user and ProcessManager *)

\* What a click on each button of the alert view sends: report... labels the
\* buttons, postSolution: turns the tag of the clicked one into a letter.
Buttons(p) ==
  IF p = "SymlinkEncountered" THEN <<"CopyOriginal", "SkipFile", "NewLink">>
  ELSE IF p = "SymlinkTargetNotExist" THEN <<"SkipFile", "NewLink">>
  ELSE IF p = "FileExists" THEN <<"OverwriteFile", "SkipFile">>
  ELSE IF p = "AttributesUnchangeable" THEN <<"IgnoreProblem">>
  ELSE <<"SkipFile">>

\* The tool understands every button it makes the Workspace show.
ASSUME ButtonsAccepted ==
  \A p \in Problem : \A i \in DOMAIN Buttons(p) : Buttons(p)[i] \in Solutions[p]

\* Mutant of PostSolution: the state stays OperationAlert.
PostSolutionStaysInAlert ==
  /\ state = "Alert" /\ life # "dead"
  /\ \E i \in DOMAIN Buttons(problem), all \in BOOLEAN :
       stdin' = Append(stdin, [sol |-> Buttons(problem)[i], all |-> all])
  /\ UNCHANGED <<opVars, sizer, halted, toolVars, stdout, split, counts>>

\* postSolution:applyToSubsequent: from a button of the alert view.
PostSolution ==
  /\ state = "Alert" /\ life # "dead"
  /\ \E i \in DOMAIN Buttons(problem), all \in BOOLEAN :
       stdin' = Append(stdin, [sol |-> Buttons(problem)[i], all |-> all])
  /\ problem' = "none"
  /\ state' = "Running"
  /\ UNCHANGED <<isSizing, isSuspended, armed, notified, life, sizer, halted,
                 toolVars, stdout, split, counts>>

\* Its Stop button: postSolution:-1.
PostStop ==
  /\ state = "Alert" /\ life # "dead"
  /\ stdin' = Append(stdin, Stop)
  /\ problem' = "none"
  /\ state' = "Stopping"
  /\ UNCHANGED <<isSizing, isSuspended, armed, notified, life, sizer, halted,
                 toolVars, stdout, split, counts>>

\* Mutant of Suspend: the button is never disabled.
SuspendAnytime ==
  /\ MayPause /\ ~isSuspended
  /\ isSuspended' = TRUE /\ state' = "Paused" /\ halted' = TRUE
  /\ UNCHANGED <<problem, isSizing, armed, notified, life, sizer, toolVars, pipes, counts>>

\* pause: from the Suspend/Resume button, which the alert view hides.
\* -suspend and -resume always succeed, even for a process that has ended.
Suspend ==
  /\ MayPause /\ life = "live"
  /\ state \in {"Running", "Paused"} /\ ~isSuspended
  /\ isSuspended' = TRUE
  /\ state' = "Paused"
  /\ halted' = TRUE
  /\ UNCHANGED <<problem, isSizing, armed, notified, life, sizer, toolVars, pipes, counts>>

Resume ==
  /\ life = "live"
  /\ state \in {"Running", "Paused"} /\ isSuspended
  /\ isSuspended' = FALSE
  /\ state' = "Running"
  /\ halted' = FALSE
  /\ UNCHANGED <<problem, isSizing, armed, notified, life, sizer, toolVars, pipes, counts>>

\* [task interrupt]: nothing happens to a task that has terminated.
InterruptTask ==
  IF isSizing \/ phase = "exit"
    THEN UNCHANGED toolVars      \* the Sizer is told; it was going to end anyway
    ELSE Tool!Signal

\* Mutant of StopOperation: 't' is sent whether or not there is an alert.
StopByLetter ==
  /\ isSuspended' = FALSE
  /\ halted' = IF isSuspended THEN FALSE ELSE halted
  /\ stdin' = Append(stdin, Stop)
  /\ problem' = "none" /\ state' = "Stopping"
  /\ UNCHANGED <<isSizing, armed, notified, life, sizer, toolVars, stdout, split>>

\* Mutant of StopOperation: an alert does not get its answer.
StopByInterrupt ==
  /\ isSuspended' = FALSE
  /\ halted' = IF isSuspended THEN FALSE ELSE halted
  /\ InterruptTask
  /\ state' = "Stopping"
  /\ UNCHANGED <<problem, isSizing, armed, notified, life, sizer, pipes>>

\* stop: it resumes a suspended task first, and pause: leaves state = Running.
StopOperation ==
  /\ isSuspended' = FALSE
  /\ halted' = IF isSuspended THEN FALSE ELSE halted
  /\ IF state = "Alert" /\ ~isSuspended
       THEN /\ stdin' = Append(stdin, Stop)
            /\ problem' = "none"
            /\ UNCHANGED toolVars
       ELSE /\ InterruptTask
            /\ UNCHANGED <<stdin, problem>>
  /\ state' = "Stopping"
  /\ UNCHANGED <<isSizing, armed, notified, life, sizer, stdout, split>>

\* The Stop button of the process view.
UserStop ==
  /\ state \in {"Running", "Paused"} /\ life = "live"
  /\ StopOperation
  /\ UNCHANGED counts

\* terminateAllBGOperations: "Stop and quit".
ManagerStop ==
  /\ life # "dead"
  /\ ns < MaxStops
  /\ ns' = ns + 1
  /\ StopOperation
  /\ UNCHANGED nq

-------------------------------------------------------------------------------
(* Termination *)

\* Mutant of SizerTerminated: isSizing is not reset.
SizerTerminatedStillSizing ==
  /\ sizer = "exit" /\ notified = "none"
  /\ notified' = "sizer" /\ phase' = "boot" /\ armed' = TRUE /\ halted' = FALSE
  /\ UNCHANGED <<state, problem, isSizing, isSuspended, life, sizer, question,
                 always, stopped, report, pipes, counts>>

\* sizerTaskTerminated: only OperationStopped keeps the tool from starting.
SizerTerminated ==
  /\ sizer = "exit" /\ notified = "none"
  /\ notified' = "sizer"
  /\ IF state # "Stopped"
       THEN /\ isSizing' = FALSE
            /\ phase' = "boot"
            /\ armed' = TRUE
            /\ halted' = FALSE
            /\ UNCHANGED life
       ELSE /\ life' = "timer"
            /\ UNCHANGED <<isSizing, phase, armed, halted>>
  /\ UNCHANGED <<state, problem, isSuspended, sizer, question, always, stopped,
                 report, pipes, counts>>

\* taskTerminated: what is left in the pipe is read unless Stopping.
TaskTerminated ==
  /\ phase = "exit" /\ notified = "sizer"
  /\ notified' = "tool"
  /\ IF state # "Stopping"
       THEN /\ problem' = IF HasAlert(stdout) THEN LastAlert(stdout) ELSE problem
            /\ stdout' = <<>> /\ split' = FALSE
            /\ state' = "Completed"
       ELSE /\ state' = "Stopped"
            /\ UNCHANGED <<problem, stdout, split>>
  /\ life' = "timer"
  /\ UNCHANGED <<isSizing, isSuspended, armed, sizer, halted, toolVars, stdin, counts>>

\* Mutant of DestroyOperation: the notification is not posted.
DestroyUnannounced == life = "timer" /\ UNCHANGED vars

\* destroyOperation: ProcessManager forgets the operation.
DestroyOperation ==
  /\ life = "timer"
  /\ life' = "dead"
  /\ UNCHANGED <<state, problem, isSizing, isSuspended, armed, notified, sizer,
                 halted, toolVars, pipes, counts>>

-------------------------------------------------------------------------------

\* initWithOperationType:...: the Sizer is launched.
Init ==
  /\ state = "Running" /\ problem = "none"
  /\ isSizing = TRUE /\ isSuspended = FALSE
  /\ armed = TRUE /\ notified = "none" /\ life = "live"
  /\ sizer = "run" /\ halted = FALSE
  /\ phase = "none" /\ question = "none"
  /\ always = [p \in Problem |-> "NOT_SET"]
  /\ stopped = FALSE /\ report = "none"
  /\ stdout = <<>> /\ split = FALSE /\ stdin = <<>>
  /\ nq = 0 /\ ns = 0

Processes == SizerExits \/ ToolBegins \/ ToolAsks \/ ToolReads \/ ToolExits
RunLoop == ReadInput \/ SizerTerminated \/ TaskTerminated \/ DestroyOperation
Answering == PostSolution \/ PostStop
Controls == Suspend \/ Resume \/ UserStop \/ ManagerStop
Done == life = "dead" /\ UNCHANGED vars

Next == Processes \/ RunLoop \/ Answering \/ Controls \/ Done

Spec == Init /\ [][Next]_vars

\* The processes are scheduled unless stopped by SIGSTOP, the run loop serves
\* every event, the user answers alerts and does not leave a task suspended.
FairSpec ==
  /\ Spec
  /\ WF_vars(SizerExits) /\ WF_vars(ToolBegins) /\ WF_vars(ToolReads)
  /\ WF_vars(ToolAsks \/ ToolExits)
  /\ WF_vars(ReadInput) /\ WF_vars(SizerTerminated) /\ WF_vars(TaskTerminated)
  /\ WF_vars(DestroyOperation)
  /\ WF_vars(Answering) /\ WF_vars(Resume)

-------------------------------------------------------------------------------
(* Properties *)

\* Every variable has its type; the Sizer comes before the tool, and a
\* question is open exactly while the tool waits for its answer.
TypeOK ==
  /\ state \in {"Running", "Paused", "Alert", "Completed", "Stopping", "Stopped"}
  /\ problem \in Problem \union {"none"} /\ question \in Problem \union {"none"}
  /\ isSizing \in BOOLEAN /\ isSuspended \in BOOLEAN /\ armed \in BOOLEAN
  /\ notified \in {"none", "sizer", "tool"} /\ life \in {"live", "timer", "dead"}
  /\ sizer \in {"run", "exit"} /\ halted \in BOOLEAN
  /\ phase \in {"none", "boot", "start", "work", "ask", "exit"}
  /\ stopped \in BOOLEAN /\ report \in {"none", "0", "1"}
  /\ stdout \in Seq(Problem \union {"0", "1"}) /\ split \in BOOLEAN
  /\ stdin \in Seq(Letter)
  /\ always \in [Problem -> {"NOT_SET"} \union UNION {Solutions[p] : p \in Problem}]
  /\ isSizing <=> phase = "none"
  /\ phase = "ask" <=> question # "none"
  /\ nq \in 0..MaxQuestions /\ ns \in 0..MaxStops

\* An alert on the screen is the question the tool is waiting on, and it has
\* not been answered yet: -postSolution: never answers for nothing.
AlertIsCurrent ==
  state = "Alert" => phase = "ask" /\ problem = question /\ stdin = <<>>

\* Every letter written is consumed by the question it was meant for.
NoStrayAnswer ==
  stdin # <<>> =>
    /\ Len(stdin) = 1 /\ phase = "ask"
    /\ Head(stdin).sol \in Solutions[question] \union {"stop"}

\* A question that has been read from the pipe and not been answered is on
\* the screen, and nothing takes it away unanswered but a stop: of an operation
\* that was suspended before its question arrived.
Shown == phase = "ask" /\ stdin = <<>> /\ stdout = <<>> => state = "Alert"
QuestionIsShown ==
  /\ Shown
  /\ [][Shown /\ ~(isSuspended /\ state = "Alert" /\ ManagerStop) => Shown']_vars

\* The operation behaves as the ProcessManager expects of any.
Operation == INSTANCE BGOperation WITH
  asked <- phase = "ask" /\ stdin = <<>>

ImplementsOperation == Operation!Spec

\* Every operation is destroyed in the end, if its questions stay on the screen
\* and its task is not left suspended.
Destroyed == []Shown /\ <>[]~halted => <>(life = "dead")
===============================================================================
