------------------------------ MODULE BGOperation ------------------------------
(***************************************************************************)
(* What the ProcessManager and the Processes panel may rely on of one file *)
(* operation: the states it goes through, that a question of its tool is   *)
(* shown before it is answered, that it does not end with a question open, *)
(* and that it is destroyed only after its end.                            *)
(*                                                                         *)
(* FileMoverOp implements this specification; ProcessManager composes      *)
(* several operations that behave like it.                                 *)
(***************************************************************************)

VARIABLES
  state,    \* OperationState
  asked,    \* the tool waits for an answer that has not been sent
  life      \* "unborn", "live", "timer" (destroyOperation is due), "dead"

vars == <<state, asked, life>>

Init ==
  /\ asked = FALSE
  /\ \/ state = "Prepare" /\ life = "unborn"
     \/ state = "Running" /\ life = "live"

Create ==
  /\ life = "unborn"
  /\ life' = "live"
  /\ state' = "Running"
  /\ UNCHANGED asked

Ask ==
  /\ life = "live"
  /\ state # "Alert"
  /\ asked' = TRUE
  /\ UNCHANGED <<state, life>>

\* A question replaces whatever state the operation was in, Stopping too.
Show ==
  /\ life = "live"
  /\ asked
  /\ state' = "Alert"
  /\ UNCHANGED <<asked, life>>

Answer ==
  /\ state = "Alert"
  /\ asked' = FALSE
  /\ state' \in {"Running", "Stopping"}
  /\ UNCHANGED life

Pause ==
  /\ life = "live"
  /\ state \in {"Running", "Paused"}
  /\ state' \in {"Running", "Paused"}
  /\ UNCHANGED <<asked, life>>

\* A stop answers the alert on the screen; it may leave one unanswered.
Stop ==
  /\ life \in {"live", "timer"}
  /\ state' = "Stopping"
  /\ asked' = asked \/ (state = "Alert" /\ asked' = FALSE)
  /\ UNCHANGED life

End ==
  /\ life = "live"
  /\ ~asked
  /\ state' = IF state = "Stopping" THEN "Stopped" ELSE "Completed"
  /\ life' = "timer"
  /\ UNCHANGED asked

Destroy ==
  /\ life = "timer"
  /\ life' = "dead"
  /\ UNCHANGED <<state, asked>>

Next == \/ Create \/ Ask \/ Show \/ Answer \/ Pause \/ Stop \/ End \/ Destroy

Spec == Init /\ [][Next]_vars
================================================================================
