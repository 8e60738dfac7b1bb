------------------------------ MODULE ToolProtocol ------------------------------
(***************************************************************************)
(* What the Workspace may rely on when it talks to the FileMover tool: the *)
(* alert half of the line protocol listed in Tools/Communicator.h.         *)
(*                                                                         *)
(* A tool works, may stop to ask one question at a time, waits for exactly *)
(* one answer, may be interrupted (SIGINT) at any moment, and ends with a  *)
(* report line, "0" (completed) or "1" (stopped).  FileMoverTool is the    *)
(* detailed specification that implements this one; FileMoverOp composes   *)
(* this one with the Workspace side of the pipes.                          *)
(***************************************************************************)

CONSTANTS Problem,     \* enum ProblemType
          Solutions    \* [Problem -> set of the solutions its alert accepts]

VARIABLES phase,       \* "boot", "start", "work", "ask" (in fgetc) or "exit"
          question,    \* the problem asked about while phase = "ask"
          always,      \* default*Action of Communicator: [Problem -> solution]
          stopped,     \* isStopped
          report       \* the last line printed: "none", "0" or "1"

vars == <<phase, question, always, stopped, report>>

NoQuestion == "none"

Init ==
  /\ phase = "boot"
  /\ question = NoQuestion
  /\ always = [p \in Problem |-> "NOT_SET"]
  /\ stopped = FALSE
  /\ report = "none"

\* -howToHandleProblem: prints an alert line and waits.
Question(p) ==
  /\ phase = "work"
  /\ always[p] = "NOT_SET"
  /\ phase' = "ask"
  /\ question' = p
  /\ UNCHANGED <<always, stopped, report>>

\* A lower-case answer applies once, an upper-case one to this kind of
\* problem from now on.
Reply(s, all) ==
  /\ phase = "ask"
  /\ s \in Solutions[question]
  /\ phase' = "work"
  /\ question' = NoQuestion
  /\ always' = IF all THEN [always EXCEPT ![question] = s] ELSE always
  /\ UNCHANGED <<stopped, report>>

\* The 't' answer calls StopOperation().
ReplyStop ==
  /\ phase = "ask"
  /\ phase' = "work"
  /\ question' = NoQuestion
  /\ stopped' = TRUE
  /\ UNCHANGED <<always, report>>

\* SIGINT: fatal until the handler is installed; from then on SignalHandler
\* sets the flag, whatever the tool is doing.
Signal ==
  /\ phase # "exit"
  /\ IF phase = "boot" THEN phase' = "exit" /\ UNCHANGED stopped
                       ELSE stopped' = TRUE /\ UNCHANGED phase
  /\ UNCHANGED <<question, always, report>>

\* main() installs the handler, reads its arguments and only then clears the
\* flag: a SIGINT that came in between is forgotten.
InstallHandler ==
  /\ phase = "boot"
  /\ phase' = "start"
  /\ UNCHANGED <<question, always, stopped, report>>

Start ==
  /\ phase = "start"
  /\ phase' = "work"
  /\ stopped' = FALSE
  /\ UNCHANGED <<question, always, report>>

\* -finishOperation:stopped: and the end of main().
Exit ==
  /\ phase = "work"
  /\ phase' = "exit"
  /\ report' = IF stopped THEN "1" ELSE "0"
  /\ UNCHANGED <<question, always, stopped>>

Next ==
  \/ InstallHandler \/ Start
  \/ \E p \in Problem : Question(p)
  \/ question # NoQuestion /\ \E s \in Solutions[question], all \in BOOLEAN : Reply(s, all)
  \/ ReplyStop
  \/ Signal
  \/ Exit

Spec == Init /\ [][Next]_vars
================================================================================
