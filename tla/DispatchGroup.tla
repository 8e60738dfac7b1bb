----------------------------- MODULE DispatchGroup -----------------------------
(***************************************************************************)
(* dispatch_group of libdispatch (semaphore.c, with the futex wrappers of  *)
(* shims/lock.c and the os_mpsc list of inline_internal.h), the Linux      *)
(* build.  One 64-bit word holds how often the group was entered, a        *)
(* generation that the carry of the last leave increments, and two flags.  *)
(* Every atomic operation of the code is one step; a compare-and-swap loop *)
(* whose body only depends on the word is the step that succeeds.          *)
(*                                                                         *)
(* Clients call group_async, notify and wait, and hold a reference while   *)
(* they do; workers run the blocks and leave the group without one.        *)
(***************************************************************************)
EXTENDS Integers, Sequences, FiniteSets

CONSTANTS Client,    \* threads that use the group
          Waiter,    \* bound: the clients that call dispatch_group_wait
          Worker,    \* threads that run blocks submitted by group_async
          Block,     \* notification blocks, each passed to notify once
          NoBlock,   \* the block of a thread outside notify
          MaxEnter   \* bound: how often the group is entered

ASSUME GroupAssumption ==
  /\ Client \cap Worker = {} /\ Waiter \subseteq Client /\ NoBlock \notin Block
  /\ IsFiniteSet(Client) /\ IsFiniteSet(Worker)
  /\ MaxEnter \in Nat

Thread == Client \cup Worker

VARIABLES
  dg_state,   \* [value, gen, waiters, notifs]: the atomic word
  dg_notify,  \* the notification list, in the order its tail was swapped in
  linked,     \* blocks whose predecessor (or the head) points to them
  refs,       \* references to the group
  pc,         \* what each thread does next
  frame,      \* local variables of the call each thread is in
  holds,      \* clients that own a reference
  entered,    \* how often the group was entered
  notified,   \* blocks passed to dispatch_group_notify
  submitted,  \* blocks submitted to their queue
  emptied     \* history: waiting clients since whose call the group was empty

group == <<dg_state, dg_notify, linked, refs>>
use == <<holds, entered, notified, submitted>>
vars == <<group, pc, frame, use, emptied>>

Word == [value : 0..MaxEnter, gen : 0..MaxEnter, waiters : BOOLEAN, notifs : BOOLEAN]
ZeroWord == [value |-> 0, gen |-> 0, waiters |-> FALSE, notifs |-> FALSE]

\* old: the old_state or dg_state a function works with; block and first: of notify,
\* and whether its push found the list empty; forever: of wait, whether it has no
\* deadline; snapshot: the captured list, from dc to tail
Frame == [old : Word, block : Block \cup {NoBlock}, first : BOOLEAN,
          forever : BOOLEAN, snapshot : Seq(Block)]
NoFrame == [old |-> ZeroWord, block |-> NoBlock, first |-> FALSE,
            forever |-> FALSE, snapshot |-> <<>>]

InNotify == {"push", "retain", "link", "flag"}
InWait == {"futex", "asleep", "woken", "expired"}
InWake == {"capture", "submit", "wake", "release"}
PC == {"idle", "enterRetain", "async", "block", "clear"} \cup InNotify \cup InWait \cup InWake

TypeOK ==
  /\ dg_state \in Word
  /\ dg_notify \in Seq(Block) /\ linked \subseteq Block
  /\ refs \in Nat
  /\ pc \in [Thread -> PC]
  /\ frame \in [Thread -> Frame]
  /\ holds \subseteq Client
  /\ entered \in 0..MaxEnter
  /\ submitted \subseteq notified /\ notified \subseteq Block
  /\ emptied \subseteq Waiter

\* dispatch_group_create: every client was given a reference of its own
Init ==
  /\ dg_state = ZeroWord /\ dg_notify = <<>> /\ linked = {}
  /\ refs = Cardinality(Client) /\ holds = Client
  /\ pc = [t \in Thread |-> "idle"]
  /\ frame = [t \in Thread |-> NoFrame]
  /\ entered = 0 /\ notified = {} /\ submitted = {} /\ emptied = {}

Goto(t, p) == pc' = [pc EXCEPT ![t] = p]
Return(t) == Goto(t, "idle") /\ frame' = [frame EXCEPT ![t] = NoFrame]

-----------------------------------------------------------------------------
(* dispatch_group_async: enter, then hand the block to a worker.           *)

\* dispatch_group_enter: the 32-bit subtraction, without carry
Enter(c) ==
  /\ pc[c] = "idle" /\ c \in holds /\ entered < MaxEnter
  /\ dg_state' = [dg_state EXCEPT !.value = @ + 1]
  /\ entered' = entered + 1
  /\ Goto(c, IF dg_state.value = 0 THEN "enterRetain" ELSE "async")
  /\ UNCHANGED <<dg_notify, linked, refs, frame, holds, notified, submitted, emptied>>

\* mutant: the reference is forgotten
EnterForgetsRetain(c) ==
  /\ pc[c] = "enterRetain"
  /\ Goto(c, "async")
  /\ UNCHANGED <<group, frame, use, emptied>>

\* the first enter retains the group until the last leave
EnterRetain(c) ==
  /\ pc[c] = "enterRetain"
  /\ refs' = refs + 1
  /\ Goto(c, "async")
  /\ UNCHANGED <<dg_state, dg_notify, linked, frame, use, emptied>>

\* _dispatch_continuation_async: some free worker is going to run the block
ContinuationAsync(c) ==
  /\ pc[c] = "async"
  /\ LET free == {w \in Worker : pc[w] = "idle"}
     IN /\ free # {}
        /\ pc' = [pc EXCEPT ![c] = "idle", ![CHOOSE w \in free : TRUE] = "block"]
  /\ UNCHANGED <<group, frame, use, emptied>>

-----------------------------------------------------------------------------
(* dispatch_group_leave, after the block of worker w                       *)

\* the 64-bit addition: the carry of the last leave goes to the generation
LeaveAdd(w) ==
  /\ pc[w] = "block"
  /\ LET last == dg_state.value = 1
         sum == [dg_state EXCEPT !.value = @ - 1, !.gen = IF last THEN @ + 1 ELSE @]
     IN /\ dg_state' = sum
        /\ IF last THEN /\ Goto(w, "clear")
                        /\ frame' = [frame EXCEPT ![w].old = sum]
                        /\ emptied' = {c \in Client : pc[c] \in InWait}
                   ELSE Return(w) /\ UNCHANGED emptied
  /\ UNCHANGED <<dg_notify, linked, refs, use>>

\* mutant: the waiters flag is cleared also for the next generation
ClearedAltogether(s) == [s EXCEPT !.notifs = FALSE, !.waiters = FALSE]

\* the waiters flag stays if the group was entered again
Cleared(s) == [s EXCEPT !.notifs = FALSE, !.waiters = @ /\ s.value > 0]

\* mutant: one attempt, without looking again
LeaveClearOnce(w) ==
  /\ pc[w] = "clear"
  /\ dg_state' = IF dg_state = frame[w].old THEN Cleared(dg_state) ELSE dg_state
  /\ Goto(w, "capture")
  /\ UNCHANGED <<dg_notify, linked, refs, frame, use, emptied>>

\* one round of the loop that clears the flags
LeaveClear(w) ==
  /\ pc[w] = "clear"
  /\ LET old == frame[w].old IN
     \/ /\ old = Cleared(old)
        /\ Goto(w, "capture")
        /\ UNCHANGED <<dg_state, frame>>
     \/ /\ old # Cleared(old) /\ dg_state = old
        /\ dg_state' = Cleared(old)
        /\ Goto(w, "capture")
        /\ UNCHANGED frame
     \/ /\ old # Cleared(old) /\ dg_state # old
        /\ frame' = [frame EXCEPT ![w].old = dg_state]
        /\ UNCHANGED <<dg_state, pc>>
  /\ UNCHANGED <<dg_notify, linked, refs, use, emptied>>

-----------------------------------------------------------------------------
(* _dispatch_group_wake(dg, frame[t].old, needs_release)                   *)

\* os_mpsc_capture_snapshot waits for the head and takes the whole list
WakeCapture(t) ==
  /\ pc[t] = "capture"
  /\ \/ /\ frame[t].old.notifs
        /\ dg_notify # <<>> /\ Head(dg_notify) \in linked
        /\ frame' = [frame EXCEPT ![t].snapshot = dg_notify]
        /\ dg_notify' = <<>>
        /\ Goto(t, "submit")
     \/ /\ ~frame[t].old.notifs
        /\ Goto(t, "wake")
        /\ UNCHANGED <<dg_notify, frame>>
  /\ UNCHANGED <<dg_state, linked, refs, use, emptied>>

\* os_mpsc_pop_snapshot_head waits until the next block is linked
WakeSubmit(t) ==
  /\ pc[t] = "submit"
  /\ LET dc == Head(frame[t].snapshot)
         rest == Tail(frame[t].snapshot)
     IN /\ rest # <<>> => Head(rest) \in linked
        /\ submitted' = submitted \cup {dc}
        /\ frame' = [frame EXCEPT ![t].snapshot = rest]
        /\ Goto(t, IF rest = <<>> THEN "wake" ELSE "submit")
  /\ UNCHANGED <<group, holds, entered, notified, emptied>>

\* _dispatch_wake_by_address wakes every thread asleep on the generation
WakeWaiters(t) ==
  /\ pc[t] = "wake"
  /\ pc' = [u \in Thread |-> IF u = t THEN "release"
                             ELSE IF frame[t].old.waiters /\ pc[u] = "asleep" THEN "woken"
                             ELSE pc[u]]
  /\ UNCHANGED <<group, frame, use, emptied>>

\* a leave gives up the reference of the group's first enter, and whoever
\* captured the list that of its first notify
Due(t) == (IF t \in Worker THEN 1 ELSE 0) + (IF frame[t].old.notifs THEN 1 ELSE 0)

WakeRelease(t) ==
  /\ pc[t] = "release"
  /\ refs' = refs - Due(t)
  /\ Return(t)
  /\ UNCHANGED <<dg_state, dg_notify, linked, use, emptied>>

-----------------------------------------------------------------------------
(* dispatch_group_notify                                                   *)

\* a new block: which one it is makes no difference
FreshBlock == CHOOSE b \in Block : b \notin notified

Notify(c) ==
  /\ pc[c] = "idle" /\ c \in holds
  /\ notified # Block
  /\ notified' = notified \cup {FreshBlock}
  /\ frame' = [frame EXCEPT ![c].block = FreshBlock]
  /\ Goto(c, "push")
  /\ UNCHANGED <<group, holds, entered, submitted, emptied>>

\* os_mpsc_push_update_tail
NotifyPush(c) ==
  /\ pc[c] = "push"
  /\ dg_notify' = Append(dg_notify, frame[c].block)
  /\ frame' = [frame EXCEPT ![c].first = (dg_notify = <<>>)]
  /\ Goto(c, IF dg_notify = <<>> THEN "retain" ELSE "link")
  /\ UNCHANGED <<dg_state, linked, refs, use, emptied>>

\* mutant: the list holds no reference
NotifyForgetsRetain(c) ==
  /\ pc[c] = "retain"
  /\ Goto(c, "link")
  /\ UNCHANGED <<group, frame, use, emptied>>

NotifyRetain(c) ==
  /\ pc[c] = "retain"
  /\ refs' = refs + 1
  /\ Goto(c, "link")
  /\ UNCHANGED <<dg_state, dg_notify, linked, frame, use, emptied>>

\* os_mpsc_push_update_prev
NotifyLink(c) ==
  /\ pc[c] = "link"
  /\ linked' = linked \cup {frame[c].block}
  /\ IF frame[c].first THEN Goto(c, "flag") /\ UNCHANGED frame ELSE Return(c)
  /\ UNCHANGED <<dg_state, dg_notify, refs, use, emptied>>

\* mutant: the flag is set for a group that is empty already
NotifyFlagAnyway(c) ==
  /\ pc[c] = "flag"
  /\ dg_state' = [dg_state EXCEPT !.notifs = TRUE]
  /\ Return(c)
  /\ UNCHANGED <<dg_notify, linked, refs, use, emptied>>

\* sets the flag, or, if the whole lower half of the word is zero, wakes itself
NotifyFlag(c) ==
  /\ pc[c] = "flag"
  /\ LET flagged == [dg_state EXCEPT !.notifs = TRUE]
         zero == dg_state.value = 0 /\ ~dg_state.waiters /\ ~dg_state.notifs
     IN \/ /\ zero
           /\ frame' = [frame EXCEPT ![c].old = flagged]
           /\ Goto(c, "capture")
           /\ UNCHANGED dg_state
        \/ /\ ~zero
           /\ dg_state' = flagged
           /\ Return(c)
  /\ UNCHANGED <<dg_notify, linked, refs, use, emptied>>

-----------------------------------------------------------------------------
(* dispatch_group_wait and _dispatch_group_wait_slow                       *)

\* an empty group returns 0 at once, and a timeout of zero returns too: neither
\* changes anything
Wait(c, forever) ==
  /\ pc[c] = "idle" /\ c \in holds /\ c \in Waiter
  /\ dg_state.value > 0
  /\ emptied' = emptied \ {c}
  /\ dg_state' = [dg_state EXCEPT !.waiters = TRUE]
  /\ frame' = [frame EXCEPT ![c].old = dg_state', ![c].forever = forever]
  /\ Goto(c, "futex")
  /\ UNCHANGED <<dg_notify, linked, refs, use>>

\* mutant: the thread sleeps without comparing the generation
FutexWaitBlindly(c) ==
  /\ pc[c] = "futex"
  /\ Goto(c, "asleep")
  /\ UNCHANGED <<group, frame, use, emptied>>

\* FUTEX_WAIT compares the generation and goes to sleep in one step
FutexWait(c) ==
  /\ pc[c] = "futex"
  /\ Goto(c, IF dg_state.gen = frame[c].old.gen THEN "asleep" ELSE "woken")
  /\ UNCHANGED <<group, frame, use, emptied>>

\* the deadline passes while the thread sleeps
FutexTimeout(c) ==
  /\ pc[c] = "asleep" /\ ~frame[c].forever
  /\ Goto(c, "expired")
  /\ UNCHANGED <<group, frame, use, emptied>>

\* a signal: a wait with a deadline returns EINTR, the other goes back to sleep
FutexInterrupted(c) ==
  /\ pc[c] = "asleep"
  /\ Goto(c, IF frame[c].forever THEN "futex" ELSE "woken")
  /\ UNCHANGED <<group, frame, use, emptied>>

\* mutant: a wait that has slept to its deadline returns 0 like one that was woken
WaitReturnsUnchecked(c) ==
  /\ \/ pc[c] = "woken" /\ dg_state.gen # frame[c].old.gen
     \/ pc[c] = "expired"
  /\ Return(c)
  /\ UNCHANGED <<group, use, emptied>>

\* the generation is read again
WaitReturns0(c) ==
  /\ pc[c] \in {"woken", "expired"}
  /\ dg_state.gen # frame[c].old.gen
  /\ Return(c)
  /\ UNCHANGED <<group, use, emptied>>

WaitTimesOut(c) ==
  /\ pc[c] = "expired" /\ dg_state.gen = frame[c].old.gen
  /\ Return(c)
  /\ UNCHANGED <<group, use, emptied>>

WaitAgain(c) ==
  /\ pc[c] = "woken" /\ dg_state.gen = frame[c].old.gen
  /\ Goto(c, "futex")
  /\ UNCHANGED <<group, frame, use, emptied>>

-----------------------------------------------------------------------------
\* dispatch_release by a client between its calls
Release(c) ==
  /\ pc[c] = "idle" /\ c \in holds
  /\ holds' = holds \ {c}
  /\ refs' = refs - 1
  /\ UNCHANGED <<dg_state, dg_notify, linked, pc, frame, entered, notified, submitted, emptied>>

\* the steps a thread takes by itself once it is in a call
Step(t) ==
  \/ LeaveAdd(t) \/ LeaveClear(t)
  \/ WakeCapture(t) \/ WakeSubmit(t) \/ WakeWaiters(t) \/ WakeRelease(t)
  \/ EnterRetain(t) \/ ContinuationAsync(t)
  \/ NotifyPush(t) \/ NotifyRetain(t) \/ NotifyLink(t) \/ NotifyFlag(t)
  \/ FutexWait(t) \/ WaitReturns0(t) \/ WaitTimesOut(t) \/ WaitAgain(t)

Next ==
  \/ \E t \in Thread : Step(t)
  \/ \E c \in Client :
       \/ Enter(c) \/ Notify(c) \/ Release(c)
       \/ \E forever \in BOOLEAN : Wait(c, forever)
       \/ FutexTimeout(c) \/ FutexInterrupted(c)

Spec == Init /\ [][Next]_vars

\* Threads in a call are scheduled, and the blocks of the group come to an end.
\* Nothing forces a client to make a call, a deadline to pass or a signal to come.
FairSpec == Spec /\ \A t \in Thread : WF_vars(Step(t))

-----------------------------------------------------------------------------
\* A thread that is bound to capture the list: it found it empty when it pushed
\* and has not set the flag, or it took the flag and has not captured yet.
Responsible(t) ==
  \/ frame[t].first /\ pc[t] \in {"retain", "link", "flag"}
  \/ pc[t] = "capture" /\ frame[t].old.notifs

\* A list that holds blocks is in the care of exactly one: the flag, a notifier
\* on its way to the flag, or a thread about to capture.  Two would make one wait
\* for a head that never comes (_dispatch_wait_for_enqueuer), none would lose blocks.
OneFires ==
  Cardinality({t \in Thread : Responsible(t)}) + (IF dg_state.notifs THEN 1 ELSE 0)
    = IF dg_notify = <<>> THEN 0 ELSE 1

\* Flags left in the word of an empty group belong to a leave that is still going
\* to look at them; otherwise notify, which tests the whole lower half for zero,
\* would set its flag for nobody, and dispose would crash.
FlagsHaveReader ==
  (dg_state.value = 0 /\ (dg_state.waiters \/ dg_state.notifs)) =>
     \E w \in Worker : pc[w] = "clear" /\ frame[w].old # Cleared(frame[w].old)

\* When the last reference goes, no thread is inside a call or about to leave, and
\* the word is clear, so that _dispatch_group_dispose does not crash with "Group
\* object deallocated while in use".
NoUseAfterDispose ==
  refs = 0 => /\ \A t \in Thread : pc[t] = "idle"
              /\ dg_state.value = 0 /\ ~dg_state.waiters /\ ~dg_state.notifs
              /\ dg_notify = <<>>

\* A thread that sleeps although its generation is over is about to be woken: the
\* leave that ended the generation, or a later one, still has the waiters flag.
NoLostWakeup ==
  \A c \in Client : (pc[c] = "asleep" /\ frame[c].old.gen # dg_state.gen) =>
     \E t \in Worker : /\ pc[t] \in {"clear", "capture", "submit", "wake"}
                       /\ frame[t].old.waiters

\* dispatch_group_wait returns 0, after a wakeup, a signal or its own deadline, only
\* if the group was empty at some moment since the call; and it reports a timeout
\* only if it was not: a leave that comes with the deadline is not overlooked.
WaitIsHonest ==
  [][\A c \in Client : /\ WaitReturns0(c) => c \in emptied
                       /\ WaitTimesOut(c) => c \notin emptied]_vars

\* Clients make finitely many calls here, and every block leaves.  Then every block
\* passed to notify is submitted, and every thread in dispatch_group_wait returns:
\* neither a signal nor a wakeup for another generation puts it to sleep for good.
Settles == <>[](submitted = notified /\ \A c \in Client : pc[c] \notin InWait)
================================================================================
