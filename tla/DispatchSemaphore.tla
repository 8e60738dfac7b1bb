--------------------------- MODULE DispatchSemaphore ---------------------------
(***************************************************************************)
(* dispatch_semaphore of libdispatch (semaphore.c), over the POSIX         *)
(* semaphore of shims/lock.c.  dsema_value counts what is available, or,   *)
(* below zero, the threads that went to wait on the kernel's semaphore;    *)
(* a thread whose deadline passes takes itself out of that count, unless a *)
(* signal that already counted it obliges it to consume a post.            *)
(***************************************************************************)
EXTENDS Integers, FiniteSets

CONSTANTS Thread,      \* threads that use the semaphore
          Orig,        \* the value it was created with
          MaxCredit    \* bound: signals that are ahead of the waits

ASSUME SemaphoreAssumption ==
  IsFiniteSet(Thread) /\ Orig \in Nat /\ MaxCredit \in Nat /\ Orig <= MaxCredit

VARIABLES
  dsema_value,  \* the counter
  dsema_sema,   \* the count of the kernel's semaphore
  at,           \* where in a call each thread is
  credit        \* history: Orig and the signals, less the waits that returned 0

vars == <<dsema_value, dsema_sema, at, credit>>

Timeout == {"now", "timed", "forever"}
Slow == {"timedwait", "undo", "wait"}
Place == {"out", "post"} \cup Slow

TypeOK ==
  /\ dsema_value \in -Cardinality(Thread)..MaxCredit
  /\ dsema_sema \in 0..Cardinality(Thread)
  /\ at \in [Thread -> Place]
  /\ credit \in Int /\ credit <= MaxCredit

\* dispatch_semaphore_create
Init ==
  /\ dsema_value = Orig /\ dsema_sema = 0
  /\ at = [t \in Thread |-> "out"]
  /\ credit = Orig

Goto(t, p) == at' = [at EXCEPT ![t] = p]
Acquired(t) == Goto(t, "out") /\ credit' = credit - 1

-----------------------------------------------------------------------------
\* dispatch_semaphore_wait: decrement, and wait if that went below zero
Wait(t, timeout) ==
  /\ at[t] = "out"
  /\ dsema_value' = dsema_value - 1
  /\ IF dsema_value > 0
       THEN Acquired(t)
       ELSE /\ Goto(t, CASE timeout = "now" -> "undo"
                         [] timeout = "timed" -> "timedwait"
                         [] timeout = "forever" -> "wait")
            /\ UNCHANGED credit
  /\ UNCHANGED dsema_sema

\* sem_timedwait got a post
TimedWaitGets(t) ==
  /\ at[t] = "timedwait" /\ dsema_sema > 0
  /\ dsema_sema' = dsema_sema - 1
  /\ Acquired(t)
  /\ UNCHANGED dsema_value

\* sem_timedwait returned ETIMEDOUT
TimedWaitExpires(t) ==
  /\ at[t] = "timedwait"
  /\ Goto(t, "undo")
  /\ UNCHANGED <<dsema_value, dsema_sema, credit>>

\* mutant: it is undone even if a signal has counted the thread
UndoAlways(t) ==
  /\ at[t] = "undo" /\ dsema_value' = dsema_value + 1 /\ Goto(t, "out")
  /\ UNCHANGED <<dsema_sema, credit>>
\* mutant: the thread times out without undoing its decrement
UndoNothing(t) ==
  /\ at[t] = "undo" /\ Goto(t, "out")
  /\ UNCHANGED <<dsema_value, dsema_sema, credit>>
\* the compare-and-swap loop undoes the decrement if the value is still negative:
\* the call returns a timeout; otherwise it goes on to drain the post
Undo(t) ==
  /\ at[t] = "undo"
  /\ \/ dsema_value < 0 /\ dsema_value' = dsema_value + 1 /\ Goto(t, "out")
     \/ dsema_value >= 0 /\ Goto(t, "wait") /\ UNCHANGED dsema_value
  /\ UNCHANGED <<dsema_sema, credit>>

\* mutant: the raced signal is taken without consuming its post
WaitGetsUnposted(t) == at[t] = "wait" /\ Acquired(t) /\ UNCHANGED <<dsema_value, dsema_sema>>
\* sem_wait, for a wait without deadline and to drain the post of a raced signal
WaitGets(t) ==
  /\ at[t] = "wait" /\ dsema_sema > 0
  /\ dsema_sema' = dsema_sema - 1
  /\ Acquired(t)
  /\ UNCHANGED dsema_value

\* mutant: a signal that brings the value to zero does not post
SignalFromBelow(t) ==
  /\ at[t] = "out" /\ credit < MaxCredit
  /\ dsema_value' = dsema_value + 1
  /\ credit' = credit + 1
  /\ IF dsema_value >= -1 THEN UNCHANGED at ELSE Goto(t, "post")
  /\ UNCHANGED dsema_sema
\* dispatch_semaphore_signal: increment, and post if a thread was counted
Signal(t) ==
  /\ at[t] = "out" /\ credit < MaxCredit
  /\ dsema_value' = dsema_value + 1
  /\ credit' = credit + 1
  /\ IF dsema_value >= 0 THEN UNCHANGED at ELSE Goto(t, "post")
  /\ UNCHANGED dsema_sema

\* _dispatch_semaphore_signal_slow
Post(t) ==
  /\ at[t] = "post"
  /\ dsema_sema' = dsema_sema + 1
  /\ Goto(t, "out")
  /\ UNCHANGED <<dsema_value, credit>>

\* the steps a thread takes by itself once it is in a call
Step(t) == TimedWaitGets(t) \/ TimedWaitExpires(t) \/ Undo(t) \/ WaitGets(t) \/ Post(t)

Next == \E t \in Thread : Step(t) \/ Signal(t) \/ \E timeout \in Timeout : Wait(t, timeout)

Spec == Init /\ [][Next]_vars

-----------------------------------------------------------------------------
In(places) == {t \in Thread : at[t] \in places}
Below(v) == IF v < 0 THEN -v ELSE 0

\* Every thread in the slow path is counted once: below zero in the value, by a
\* post, or by a signal that is about to post.  A post too few would leave a
\* thread asleep for good, one too many would let a later wait through.
EveryWaiterCounted ==
  Cardinality(In(Slow)) = Below(dsema_value) + dsema_sema + Cardinality(In({"post"}))

\* Not more waits return 0 than the semaphore started with and signals were sent,
\* also when deadlines pass while the signals are on their way.
NoOverAdmission == credit >= 0

\* Waits that timed out leave no trace: between calls the value is what the
\* successful calls make it, so that balanced calls never run into the crash
\* "Semaphore object deallocated while in use" of dispose.
TimeoutsLeaveNoTrace == In(Place \ {"out"}) = {} => dsema_value = credit
================================================================================
