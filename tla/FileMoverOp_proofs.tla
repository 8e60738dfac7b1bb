--------------------------- MODULE FileMoverOp_proofs ---------------------------
(* Proofs about FileMoverOp for every set of problems, any number of alerts   *)
(* and stops, as long as alert lines are read whole.                          *)
EXTENDS FileMoverOp, SequenceTheorems, TLAPS

\* Where the object is in its life: the Sizer, then the tool, then the timer.
Stages ==
  /\ notified = "none" <=> phase = "none"
  /\ notified = "tool" => phase = "exit"
  /\ life = "live" <=> notified # "tool"
  /\ state \in {"Completed", "Stopped"} => notified = "tool"

\* An alert line in the pipe is the last one, is the question the tool waits
\* on, and has been neither shown nor answered.
LineIsQuestion ==
  \A i \in DOMAIN stdout : stdout[i] \in Problem =>
    /\ i = Len(stdout) /\ stdout[i] = question
    /\ phase = "ask" /\ stdin = <<>> /\ state # "Alert"

IInv == TypeOK /\ Stages /\ LineIsQuestion /\ AlertIsCurrent /\ NoStrayAnswer

\* A read that contains an alert shows the open question; what it leaves in
\* the pipe has no alert if it contained one, and the same alert if not.
LEMMA AlertOfRead ==
  ASSUME IInv, NEW k \in 1..Len(stdout)
  PROVE  /\ HasAlert(SubSeq(stdout, 1, k)) =>
              k = Len(stdout) /\ stdout[k] \in Problem
              /\ LastAlert(SubSeq(stdout, 1, k)) = question
         /\ SubSeq(stdout, k + 1, Len(stdout)) \in Seq(Problem \union {"0", "1"})
         /\ Len(SubSeq(stdout, k + 1, Len(stdout))) = Len(stdout) - k
         /\ \A i \in 1..(Len(stdout) - k) :
              SubSeq(stdout, k + 1, Len(stdout))[i] = stdout[k + i]
<1> DEFINE part == SubSeq(stdout, 1, k)
<1>1. stdout \in Seq(Problem \union {"0", "1"})
  BY DEF IInv, TypeOK
<1>2. Len(part) = k /\ \A i \in 1..k : part[i] = stdout[i]
  BY <1>1
<1>3. DOMAIN part = 1..k /\ DOMAIN stdout = 1..Len(stdout)
  BY <1>1, <1>2
<1>4. ASSUME HasAlert(part)
      PROVE  k = Len(stdout) /\ stdout[k] \in Problem /\ LastAlert(part) = question
  <2>1. PICK i \in DOMAIN part : part[i] \in Problem
    BY <1>4 DEF HasAlert
  <2>2. \A j \in DOMAIN part : part[j] \in Problem =>
           j = Len(stdout) /\ j = k /\ part[j] = question
    BY <1>1, <1>2, <1>3 DEF IInv, LineIsQuestion
  <2>3. i = k /\ k = Len(stdout) /\ stdout[k] \in Problem
    BY <2>1, <2>2, <1>2, <1>3
  <2>4. part[i] \in Problem /\ \A j \in DOMAIN part : part[j] \in Problem => j <= i
    BY <2>1, <2>2, <2>3, <1>3
  <2> DEFINE c == CHOOSE x \in DOMAIN part :
                    /\ part[x] \in Problem
                    /\ \A j \in DOMAIN part : part[j] \in Problem => j <= x
  <2>5. c \in DOMAIN part /\ part[c] \in Problem
    BY <2>1, <2>4
  <2>6. LastAlert(part) = part[c]
    BY DEF LastAlert
  <2>7. QED
    BY <2>2, <2>3, <2>5, <2>6
<1>5. QED
  BY <1>1, <1>4

\* What Append does to a pipe.
LEMMA Appending ==
  ASSUME NEW S, NEW s \in Seq(S), NEW e \in S
  PROVE  /\ Append(s, e) \in Seq(S)
         /\ Len(Append(s, e)) = Len(s) + 1
         /\ DOMAIN Append(s, e) = 1..(Len(s) + 1)
         /\ \A i \in 1..Len(s) : Append(s, e)[i] = s[i]
         /\ Append(s, e)[Len(s) + 1] = e
OBVIOUS

\* The invariant holds when the Sizer has been launched.
LEMMA InitInv == Init => IInv
<1> SUFFICES ASSUME Init PROVE IInv
  OBVIOUS
<1>1. TypeOK
  <2>1. always \in [Problem -> {"NOT_SET"} \union UNION {Solutions[p] : p \in Problem}]
    BY DEF Init
  <2>2. stdout \in Seq(Problem \union {"0", "1"}) /\ stdin \in Seq(Letter)
    BY DEF Init
  <2>3. nq \in 0..MaxQuestions /\ ns \in 0..MaxStops
    BY OpAssumption DEF Init
  <2>4. QED
    BY <2>1, <2>2, <2>3 DEF Init, TypeOK
<1>2. QED
  BY <1>1 DEF Init, IInv, Stages, LineIsQuestion, AlertIsCurrent, NoStrayAnswer

\* The steps of the two processes keep the invariant.
LEMMA ProcessStep == IInv /\ Processes => IInv'
<1> SUFFICES ASSUME IInv, Processes PROVE IInv'
  OBVIOUS
<1> USE OpAssumption
        DEF IInv, TypeOK, Stages, LineIsQuestion, AlertIsCurrent, NoStrayAnswer,
            opVars, toolVars, pipes, counts
<1>1. CASE SizerExits
  BY <1>1 DEF SizerExits
<1>2. CASE ToolBegins
  <2>1. TypeOK'
    BY <1>2 DEF ToolBegins, Tool!InstallHandler, Tool!Start
  <2>2. Stages'
    BY <1>2 DEF ToolBegins, Tool!InstallHandler, Tool!Start
  <2>3. LineIsQuestion'
    BY <1>2 DEF ToolBegins, Tool!InstallHandler, Tool!Start
  <2>4. AlertIsCurrent'
    BY <1>2 DEF ToolBegins, Tool!InstallHandler, Tool!Start
  <2>5. NoStrayAnswer'
    BY <1>2 DEF ToolBegins, Tool!InstallHandler, Tool!Start
  <2>6. QED
    BY <2>1, <2>2, <2>3, <2>4, <2>5
<1>3. CASE ToolAsks
  <2>1. PICK p \in Problem : Tool!Question(p) /\ stdout' = Append(stdout, p)
    BY <1>3 DEF ToolAsks
  <2>2. stdin = <<>> /\ state # "Alert"
    BY <1>3 DEF ToolAsks
  <2>3. \A i \in DOMAIN stdout : stdout[i] \notin Problem
    BY <1>3 DEF ToolAsks
  <2>4. TypeOK' /\ Stages'
    BY <1>3, <2>1, Appending DEF ToolAsks, Tool!Question
  <2>5. LineIsQuestion'
    BY <1>3, <2>1, <2>2, <2>3, Appending DEF ToolAsks, Tool!Question
  <2>6. AlertIsCurrent' /\ NoStrayAnswer'
    BY <1>3, <2>2 DEF ToolAsks
  <2>7. QED
    BY <2>4, <2>5, <2>6
<1>4. CASE ToolReads
  <2>1. TypeOK'
    <3>1. stdin' \in Seq(Letter)
      BY <1>4 DEF ToolReads
    <3>2. always' \in [Problem -> {"NOT_SET"} \union UNION {Solutions[p] : p \in Problem}]
      BY <1>4 DEF ToolReads, Tool!Reply, Tool!ReplyStop
    <3>3. phase' = "ask" <=> question' # "none"
      BY <1>4 DEF ToolReads, Tool!Reply, Tool!ReplyStop, Tool!NoQuestion
    <3>4. QED
      BY <1>4, <3>1, <3>2, <3>3 DEF ToolReads, Tool!Reply, Tool!ReplyStop, Tool!NoQuestion
  <2>2. Stages'
    BY <1>4 DEF ToolReads, Letter, Tool!Reply, Tool!ReplyStop, Tool!NoQuestion
  <2>3. LineIsQuestion'
    BY <1>4 DEF ToolReads, Letter, Tool!Reply, Tool!ReplyStop, Tool!NoQuestion
  <2>4. AlertIsCurrent'
    BY <1>4 DEF ToolReads, Letter, Tool!Reply, Tool!ReplyStop, Tool!NoQuestion
  <2>5. NoStrayAnswer'
    BY <1>4 DEF ToolReads, Letter, Tool!Reply, Tool!ReplyStop, Tool!NoQuestion
  <2>6. QED
    BY <2>1, <2>2, <2>3, <2>4, <2>5
<1>5. CASE ToolExits
  BY <1>5 DEF ToolExits, Tool!Exit
<1>6. QED
  BY <1>1, <1>2, <1>3, <1>4, <1>5 DEF Processes

\* So do the events the run loop serves.
LEMMA RunLoopStep ==
  ASSUME ~MaySplit, IInv, RunLoop
  PROVE  IInv'
<1> USE DEF IInv, TypeOK, Stages, LineIsQuestion, AlertIsCurrent, NoStrayAnswer,
            opVars, toolVars, pipes, counts
<1>1. CASE ReadInput
  <2>1. PICK k \in 1..Len(stdout) :
          /\ IF HasAlert(SubSeq(stdout, 1, k))
               THEN problem' = LastAlert(SubSeq(stdout, 1, k)) /\ state' = "Alert"
               ELSE UNCHANGED <<problem, state>>
          /\ stdout' = SubSeq(stdout, k + 1, Len(stdout))
          /\ split' = FALSE
    <3>1. MaySplit = FALSE
      BY OpAssumption
    <3>2. QED
      BY <1>1, <3>1 DEF ReadInput
  <2>2. /\ stdout' \in Seq(Problem \union {"0", "1"})
        /\ Len(stdout') = Len(stdout) - k /\ DOMAIN stdout' = 1..(Len(stdout) - k)
        /\ \A i \in 1..(Len(stdout) - k) : stdout'[i] = stdout[k + i]
    BY <2>1, AlertOfRead
  <2>3. armed' \in BOOLEAN
    BY <1>1 DEF ReadInput, TaskRunning
  <2>4. HasAlert(SubSeq(stdout, 1, k)) =>
          /\ k = Len(stdout) /\ problem' = question /\ state' = "Alert"
          /\ phase = "ask" /\ stdin = <<>> /\ question \in Problem
    <3>1. HasAlert(SubSeq(stdout, 1, k)) => k = Len(stdout) /\ stdout[k] \in Problem
                                            /\ LastAlert(SubSeq(stdout, 1, k)) = question
      BY AlertOfRead
    <3>2. DOMAIN stdout = 1..Len(stdout)
      OBVIOUS
    <3>3. QED
      BY <2>1, <3>1, <3>2
  <2>5. TypeOK'
    BY <1>1, <2>1, <2>2, <2>3, <2>4 DEF ReadInput
  <2>6. Stages'
    BY <1>1, <2>1, <2>4 DEF ReadInput
  <2>7. LineIsQuestion'
    <3>1. DOMAIN stdout = 1..Len(stdout) /\ Len(stdout) \in Nat
      OBVIOUS
    <3>2. ASSUME NEW i \in DOMAIN stdout', stdout'[i] \in Problem
          PROVE  /\ i = Len(stdout') /\ stdout'[i] = question
                 /\ phase = "ask" /\ stdin = <<>> /\ state # "Alert" /\ k # Len(stdout)
      <4>1. k + i \in DOMAIN stdout /\ stdout'[i] = stdout[k + i]
        BY <2>2, <3>1, <3>2
      <4>2. QED
        BY <4>1, <3>2, <2>2, <3>1
    <3>3. QED
      BY <1>1, <2>1, <2>4, <3>2 DEF ReadInput
  <2>8. AlertIsCurrent' /\ NoStrayAnswer'
    BY <1>1, <2>1, <2>4 DEF ReadInput
  <2>9. QED
    BY <2>5, <2>6, <2>7, <2>8
<1>2. CASE SizerTerminated
  BY <1>2 DEF SizerTerminated
<1>3. CASE TaskTerminated
  <2>1. TypeOK'
    <3>1. ~HasAlert(stdout)
      BY <1>3 DEF TaskTerminated, HasAlert
    <3>2. <<>> \in Seq(Problem \union {"0", "1"})
      OBVIOUS
    <3>3. QED
      BY <1>3, <3>1, <3>2 DEF TaskTerminated
  <2>2. Stages'
    BY <1>3 DEF TaskTerminated, HasAlert
  <2>3. LineIsQuestion'
    BY <1>3 DEF TaskTerminated, HasAlert
  <2>4. AlertIsCurrent'
    BY <1>3 DEF TaskTerminated, HasAlert
  <2>5. NoStrayAnswer'
    BY <1>3 DEF TaskTerminated, HasAlert
  <2>6. QED
    BY <2>1, <2>2, <2>3, <2>4, <2>5
<1>4. CASE DestroyOperation
  BY <1>4 DEF DestroyOperation
<1>5. QED
  BY <1>1, <1>2, <1>3, <1>4 DEF RunLoop

\* stop: keeps it, whoever sends it.
LEMMA StopStep ==
  ASSUME IInv, StopOperation, nq' \in 0..MaxQuestions, ns' \in 0..MaxStops, life # "dead"
  PROVE  IInv'
<1> USE DEF IInv, TypeOK, Stages, LineIsQuestion, AlertIsCurrent, NoStrayAnswer,
            toolVars
<1>1. stdin' \in Seq(Letter)
  <2>1. Stop \in Letter
    BY DEF Stop, Letter
  <2>2. QED
    BY <2>1 DEF StopOperation
<1>2. TypeOK'
  BY <1>1 DEF StopOperation, InterruptTask, Tool!Signal
<1>3. Stages'
  BY DEF StopOperation, InterruptTask, Tool!Signal
<1>4. LineIsQuestion'
  BY DEF StopOperation, InterruptTask, Tool!Signal
<1>5. AlertIsCurrent'
  BY DEF StopOperation
<1>6. NoStrayAnswer'
  <2>1. CASE state = "Alert" /\ ~isSuspended
    <3>1. stdin' = <<Stop>> /\ Stop.sol = "stop"
      BY <2>1 DEF StopOperation, Stop
    <3>2. QED
      BY <2>1, <3>1 DEF StopOperation
  <2>2. CASE ~(state = "Alert" /\ ~isSuspended)
    BY <2>2 DEF StopOperation, InterruptTask, Tool!Signal
  <2>3. QED
    BY <2>1, <2>2
<1>7. QED
  BY <1>2, <1>3, <1>4, <1>5, <1>6

\* So do the clicks of the user and the stop: of the ProcessManager.
LEMMA UserStep == IInv /\ (Answering \/ Controls) => IInv'
<1> SUFFICES ASSUME IInv, Answering \/ Controls PROVE IInv'
  OBVIOUS
<1> USE OpAssumption
        DEF IInv, TypeOK, Stages, LineIsQuestion, AlertIsCurrent, NoStrayAnswer,
            opVars, toolVars, pipes, counts
<1>1. CASE PostSolution
  BY <1>1, ButtonsAccepted DEF PostSolution, Letter
<1>2. CASE PostStop
  BY <1>2 DEF PostStop, Stop, Letter
<1>3. CASE Suspend
  BY <1>3 DEF Suspend
<1>4. CASE Resume
  <2>1. TypeOK'
    BY <1>4 DEF Resume
  <2>2. Stages'
    BY <1>4 DEF Resume
  <2>3. LineIsQuestion'
    BY <1>4 DEF Resume
  <2>4. AlertIsCurrent'
    BY <1>4 DEF Resume
  <2>5. NoStrayAnswer'
    BY <1>4 DEF Resume
  <2>6. QED
    BY <2>1, <2>2, <2>3, <2>4, <2>5
<1>5. CASE UserStop
  BY <1>5, StopStep DEF UserStop
<1>6. CASE ManagerStop
  BY <1>6, StopStep DEF ManagerStop
<1>7. QED
  BY <1>1, <1>2, <1>3, <1>4, <1>5, <1>6 DEF Answering, Controls

\* The invariant is inductive.
LEMMA InvStep ==
  ASSUME ~MaySplit, IInv, [Next]_vars
  PROVE  IInv'
<1>1. CASE UNCHANGED vars
  BY <1>1 DEF vars, opVars, toolVars, pipes, counts, IInv, TypeOK, Stages,
              LineIsQuestion, AlertIsCurrent, NoStrayAnswer
<1>2. QED
  BY <1>1, ProcessStep, RunLoopStep, UserStep DEF Next, Done

\* Hence it holds throughout every behaviour of the handlers.
THEOREM Invariance ==
  ASSUME ~MaySplit
  PROVE  Spec => []IInv
<1>1. IInv /\ [Next]_vars => IInv'
  BY InvStep
<1>2. QED
  BY <1>1, InitInv, PTL DEF Spec

\* Sizer before tool, a question open exactly while the tool waits, and every
\* variable in its type.
THEOREM TypeCorrect ==
  ASSUME ~MaySplit
  PROVE  Spec => []TypeOK
<1>1. IInv => TypeOK
  BY DEF IInv
<1>2. QED
  BY <1>1, Invariance, PTL

\* Whatever the tool asks and whoever stops the operation, the alert on the
\* screen is the question the tool waits on, not yet answered.
THEOREM CurrentAlert ==
  ASSUME ~MaySplit
  PROVE  Spec => []AlertIsCurrent
<1>1. IInv => AlertIsCurrent
  BY DEF IInv
<1>2. QED
  BY <1>1, Invariance, PTL

\* No answer is left over for a question it was not given for.
THEOREM AnswersMatch ==
  ASSUME ~MaySplit
  PROVE  Spec => []NoStrayAnswer
<1>1. IInv => NoStrayAnswer
  BY DEF IInv
<1>2. QED
  BY <1>1, Invariance, PTL

\* A question that waits for its answer is on the screen or is the last line of
\* the pipe, so that the next read shows it.
AlertLineWaits == stdout # <<>> /\ stdout[Len(stdout)] \in Problem
OnItsWay == phase = "ask" /\ stdin = <<>> => state = "Alert" \/ AlertLineWaits

\* The report is the last thing the tool prints.
ReportLast == phase # "exit" => \A i \in DOMAIN stdout : stdout[i] \in Problem

\* Until it exits, the tool prints alerts only.
LEMMA ReportLastStep ==
  ASSUME ~MaySplit, IInv, ReportLast, [Next]_vars
  PROVE  ReportLast'
<1> USE DEF ReportLast, opVars, toolVars, pipes, counts
<1>0. /\ stdout \in Seq(Problem \union {"0", "1"})
      /\ DOMAIN stdout = 1..Len(stdout) /\ Len(stdout) \in Nat
  BY DEF IInv, TypeOK
<1>1. CASE ToolAsks
  <2>1. PICK p \in Problem : stdout' = Append(stdout, p) /\ phase = "work"
    BY <1>1 DEF ToolAsks
  <2>2. Len(stdout') = Len(stdout) + 1 /\ DOMAIN stdout' = 1..Len(stdout')
        /\ \A i \in 1..Len(stdout') : stdout'[i] = IF i \in 1..Len(stdout) THEN stdout[i] ELSE p
    BY <1>0, <2>1
  <2>3. QED
    BY <1>0, <2>1, <2>2
<1>2. CASE ToolExits
  BY <1>2 DEF ToolExits, Tool!Exit
<1>3. CASE ReadInput
  <2>1. PICK k \in 1..Len(stdout) : stdout' = SubSeq(stdout, k + 1, Len(stdout)) /\ phase' = phase
    <3>1. MaySplit = FALSE
      BY OpAssumption
    <3>2. QED
      BY <1>3, <3>1 DEF ReadInput
  <2>2. /\ Len(stdout') = Len(stdout) - k /\ DOMAIN stdout' = 1..Len(stdout')
        /\ \A i \in 1..(Len(stdout) - k) : stdout'[i] = stdout[k + i]
    BY <2>1, AlertOfRead
  <2>3. \A i \in 1..(Len(stdout) - k) : k + i \in DOMAIN stdout
    BY <1>0
  <2>4. QED
    BY <2>1, <2>2, <2>3
<1>4. CASE ToolBegins \/ ToolReads
  BY <1>4 DEF ToolBegins, ToolReads, Tool!InstallHandler, Tool!Start, Tool!Reply, Tool!ReplyStop
<1>5. CASE SizerTerminated
  BY <1>5 DEF SizerTerminated, IInv, Stages
<1>6. CASE TaskTerminated
  BY <1>6 DEF TaskTerminated
<1>7. CASE SizerExits \/ DestroyOperation \/ Answering
  BY <1>7 DEF SizerExits, DestroyOperation, Answering, PostSolution, PostStop
<1>8. CASE Suspend \/ Resume
  BY <1>8 DEF Suspend, Resume
<1>9. CASE UserStop \/ ManagerStop
  BY <1>9 DEF UserStop, ManagerStop, StopOperation, InterruptTask, Tool!Signal
<1>10. CASE UNCHANGED vars
  BY <1>10 DEF vars
<1>11. QED
  BY <1>1, <1>2, <1>3, <1>4, <1>5, <1>6, <1>7, <1>8, <1>9, <1>10
     DEF Next, Processes, RunLoop, Controls, Done

\* A question that comes goes through the pipe, and only a click or a stop:
\* that answers it takes it off the screen.
LEMMA OnItsWayStep ==
  ASSUME ~MaySplit, IInv, OnItsWay, [Next]_vars,
         ~(isSuspended /\ state = "Alert" /\ ManagerStop)
  PROVE  OnItsWay'
<1> USE DEF OnItsWay, AlertLineWaits, opVars, toolVars, pipes, counts
<1>0. /\ stdout \in Seq(Problem \union {"0", "1"}) /\ stdin \in Seq(Letter)
      /\ DOMAIN stdout = 1..Len(stdout) /\ Len(stdout) \in Nat
  BY DEF IInv, TypeOK
<1>1. CASE SizerExits
  BY <1>1 DEF SizerExits
<1>2. CASE ToolBegins
  BY <1>2 DEF ToolBegins, Tool!InstallHandler, Tool!Start
<1>3. CASE ToolAsks
  <2>1. PICK p \in Problem : stdout' = Append(stdout, p)
    BY <1>3 DEF ToolAsks
  <2>2. Len(stdout') = Len(stdout) + 1 /\ stdout'[Len(stdout) + 1] = p /\ stdout' # <<>>
    BY <1>0, <2>1
  <2>3. QED
    BY <1>3, <2>2 DEF ToolAsks
<1>4. CASE ToolReads
  BY <1>0, <1>4 DEF ToolReads, Tool!Reply, Tool!ReplyStop, IInv, NoStrayAnswer
<1>5. CASE ToolExits
  BY <1>5 DEF ToolExits, Tool!Exit
<1>6. CASE ReadInput
  <2>1. PICK k \in 1..Len(stdout) :
          /\ IF HasAlert(SubSeq(stdout, 1, k)) THEN state' = "Alert" ELSE UNCHANGED state
          /\ stdout' = SubSeq(stdout, k + 1, Len(stdout))
    <3>1. MaySplit = FALSE
      BY OpAssumption
    <3>2. QED
      BY <1>6, <3>1 DEF ReadInput
  <2>2. UNCHANGED <<phase, stdin>>
    BY <1>6 DEF ReadInput
  <2>3. CASE HasAlert(SubSeq(stdout, 1, k))
    BY <2>1, <2>2, <2>3
  <2>4. CASE ~HasAlert(SubSeq(stdout, 1, k))
    <3>1. AlertLineWaits => k # Len(stdout)
      <4>1. Len(SubSeq(stdout, 1, k)) = k /\ SubSeq(stdout, 1, k)[k] = stdout[k]
            /\ k \in DOMAIN SubSeq(stdout, 1, k)
        BY <1>0
      <4>2. QED
        BY <2>4, <4>1 DEF HasAlert
    <3>2. /\ Len(stdout') = Len(stdout) - k
          /\ \A i \in 1..(Len(stdout) - k) : stdout'[i] = stdout[k + i]
      BY <2>1, AlertOfRead
    <3>3. AlertLineWaits => AlertLineWaits'
      <4> DEFINE n == Len(stdout)  m == n - k
      <4>1. SUFFICES ASSUME AlertLineWaits PROVE AlertLineWaits'
        OBVIOUS
      <4>2. m \in 1..m /\ k + m = n /\ m # 0
        <5>1. k # n /\ n \in Nat /\ k \in 1..n
          BY <1>0, <3>1, <4>1
        <5> HIDE DEF n
        <5>2. QED
          BY <5>1
      <4>3. Len(stdout') = m /\ stdout'[m] = stdout[n]
        BY <3>2, <4>2
      <4>4. stdout' # <<>>
        BY <4>2, <4>3
      <4>5. QED
        BY <4>1, <4>3, <4>4
    <3>4. QED
      BY <2>1, <2>2, <2>4, <3>3
  <2>5. QED
    BY <2>3, <2>4
<1>7. CASE SizerTerminated
  BY <1>7 DEF SizerTerminated, IInv, Stages
<1>8. CASE TaskTerminated
  BY <1>8 DEF TaskTerminated
<1>9. CASE DestroyOperation
  BY <1>9 DEF DestroyOperation
<1>10. CASE Answering
  <2>1. PICK a \in Letter : stdin' = Append(stdin, a)
    BY <1>10, ButtonsAccepted, OpAssumption
       DEF Answering, PostSolution, PostStop, Stop, Letter, IInv, TypeOK, AlertIsCurrent
  <2>2. stdin' # <<>>
    BY <1>0, <2>1
  <2>3. QED
    BY <1>10, <2>2 DEF Answering, PostSolution, PostStop
<1>11. CASE Suspend \/ Resume
  BY <1>11 DEF Suspend, Resume
<1>12. CASE UserStop \/ ManagerStop
  <2>1. StopOperation
    BY <1>12 DEF UserStop, ManagerStop
  <2>2. CASE state = "Alert"
    <3>1. stdin' = Append(stdin, Stop)
      BY <1>12, <2>1, <2>2 DEF StopOperation, UserStop
    <3>2. stdin' # <<>>
      BY <1>0, <3>1
    <3>3. QED
      BY <2>1, <3>2 DEF StopOperation
  <2>3. CASE state # "Alert"
    BY <2>1, <2>3 DEF StopOperation, InterruptTask, Tool!Signal
  <2>4. QED
    BY <2>2, <2>3
<1>13. CASE UNCHANGED vars
  BY <1>13 DEF vars
<1>14. QED
  BY <1>1, <1>2, <1>3, <1>4, <1>5, <1>6, <1>7, <1>8, <1>9, <1>10, <1>11, <1>12, <1>13
     DEF Next, Processes, RunLoop, Controls, Done

\* The tool does not wait for an answer to a question that -readInput: has taken
\* and nobody sees, until stop: is sent to an operation that was suspended.
THEOREM QuestionShown ==
  ASSUME ~MaySplit
  PROVE  Spec => QuestionIsShown
<1>1. Init => ReportLast /\ Shown
  BY DEF Init, ReportLast, Shown
<1>2. IInv /\ ReportLast /\ [Next]_vars => ReportLast'
  BY ReportLastStep
<1>3. IInv /\ ReportLast /\ [Next]_vars
        => [Shown /\ ~(isSuspended /\ state = "Alert" /\ ManagerStop) => Shown']_vars
  <2> SUFFICES ASSUME IInv, ReportLast, [Next]_vars, Shown,
                      ~(isSuspended /\ state = "Alert" /\ ManagerStop)
               PROVE  Shown'
    OBVIOUS
  <2>1. OnItsWay
    <3>1. stdout # <<>> => Len(stdout) \in DOMAIN stdout
      BY DEF IInv, TypeOK
    <3>2. QED
      BY <3>1 DEF OnItsWay, AlertLineWaits, Shown, ReportLast
  <2>2. OnItsWay'
    BY <2>1, OnItsWayStep
  <2>3. QED
    BY <2>2 DEF OnItsWay, AlertLineWaits, Shown
<1>4. QED
  BY <1>1, <1>2, <1>3, Invariance, PTL DEF Spec, QuestionIsShown

\* Every step of the object is a step of BGOperation or invisible to it.
LEMMA StepSimulation ==
  ASSUME ~MaySplit, IInv, [Next]_vars
  PROVE  [Operation!Next]_(Operation!vars)
<1> USE DEF IInv, TypeOK, Stages, LineIsQuestion, AlertIsCurrent, NoStrayAnswer,
            opVars, toolVars, pipes, counts, Operation!Next, Operation!vars
<1>1. CASE SizerExits
  BY <1>1 DEF SizerExits
<1>2. CASE ToolBegins
  BY <1>2 DEF ToolBegins, Tool!InstallHandler, Tool!Start
<1>3. CASE ToolAsks
  BY <1>3 DEF ToolAsks, Tool!Question, Operation!Ask
<1>4. CASE ToolReads
  BY <1>4 DEF ToolReads, Tool!Reply, Tool!ReplyStop
<1>5. CASE ToolExits
  BY <1>5 DEF ToolExits, Tool!Exit
<1>6. CASE ReadInput
  <2>1. PICK k \in 1..Len(stdout) :
          IF HasAlert(SubSeq(stdout, 1, k)) THEN state' = "Alert" ELSE UNCHANGED state
    BY <1>6 DEF ReadInput
  <2>2. HasAlert(SubSeq(stdout, 1, k)) => phase = "ask" /\ stdin = <<>>
    <3>1. HasAlert(SubSeq(stdout, 1, k)) => stdout[k] \in Problem
      BY AlertOfRead
    <3>2. DOMAIN stdout = 1..Len(stdout)
      OBVIOUS
    <3>3. QED
      BY <3>1, <3>2
  <2>3. QED
    BY <1>6, <2>1, <2>2 DEF ReadInput, Operation!Show
<1>7. CASE SizerTerminated
  BY <1>7 DEF SizerTerminated
<1>8. CASE TaskTerminated
  BY <1>8 DEF TaskTerminated, Operation!End
<1>9. CASE DestroyOperation
  BY <1>9 DEF DestroyOperation, Operation!Destroy
<1>10. CASE PostSolution
  BY <1>10 DEF PostSolution, Operation!Answer
<1>11. CASE PostStop
  BY <1>11 DEF PostStop, Operation!Answer
<1>12. CASE Suspend \/ Resume
  BY <1>12 DEF Suspend, Resume, Operation!Pause
<1>13. CASE UserStop \/ ManagerStop
  <2>1. StopOperation /\ life \in {"live", "timer"}
    BY <1>13 DEF UserStop, ManagerStop
  <2>2. QED
    BY <2>1 DEF StopOperation, InterruptTask, Tool!Signal, Operation!Stop
<1>14. CASE UNCHANGED vars
  BY <1>14 DEF vars
<1>15. QED
  BY <1>1, <1>2, <1>3, <1>4, <1>5, <1>6, <1>7, <1>8, <1>9, <1>10, <1>11, <1>12, <1>13,
     <1>14 DEF Next, Processes, RunLoop, Answering, Controls, Done

\* The FileMover object keeps the promises that the ProcessManager is composed
\* with, for any number of alerts and stops.
THEOREM OperationImplemented ==
  ASSUME ~MaySplit
  PROVE  Spec => ImplementsOperation
<1>1. Init => Operation!Init
  BY DEF Init, Operation!Init
<1>2. IInv /\ [Next]_vars => [Operation!Next]_(Operation!vars)
  BY StepSimulation
<1>3. QED
  BY <1>1, <1>2, Invariance, PTL DEF Spec, ImplementsOperation, Operation!Spec
=================================================================================
