------------------------- MODULE DispatchGroup_proofs -------------------------
(***************************************************************************)
(* The invariants of dispatch_group, for any number of clients and workers *)
(* and any number of enters.  The inductive invariant IInv has five parts: *)
(* the structure (types, roles of threads, what is known of the blocks and *)
(* the count of those who entered), one reader of the list, a reader of    *)
(* the flags of an empty group, what a thread in wait relies on, and the   *)
(* account of the references.  Each part is kept by every step given the   *)
(* structure; only the references need another part, the one reader.       *)
(***************************************************************************)
EXTENDS DispatchGroup, FiniteSetTheorems, TLAPS

\* What TypeOK says but for the sign of the references, which follows from their account.
Types ==
  /\ dg_state \in Word
  /\ dg_notify \in Seq(Block) /\ linked \subseteq Block
  /\ refs \in Int
  /\ pc \in [Thread -> PC]
  /\ frame \in [Thread -> Frame]
  /\ holds \subseteq Client
  /\ entered \in 0..MaxEnter
  /\ submitted \subseteq notified /\ notified \subseteq Block
  /\ emptied \subseteq Waiter

\* Workers run blocks and leave; clients make calls, and hold a reference while they do.
WorkerPC == {"idle", "block", "clear"} \cup InWake
ClientPC == {"idle", "enterRetain", "async"} \cup InNotify \cup InWait \cup InWake
Roles ==
  /\ \A w \in Worker : pc[w] \in WorkerPC
  /\ \A c \in Client : /\ pc[c] \in ClientPC
                       /\ pc[c] # "idle" => c \in holds
                       /\ pc[c] \in InWait => c \in Waiter

\* Blocks in the list, in a snapshot or on their way were passed to notify; who is
\* about to retain or to set the flag found the list empty.
BlocksKnown ==
  /\ \A i \in 1..Len(dg_notify) : dg_notify[i] \in notified
  /\ \A t \in Thread :
       /\ \A i \in 1..Len(frame[t].snapshot) : frame[t].snapshot[i] \in notified
       /\ pc[t] = "submit" => frame[t].snapshot # <<>>
       /\ pc[t] \in InNotify => frame[t].block \in notified
       /\ pc[t] \in {"retain", "flag"} => frame[t].first

\* The count is the threads that entered for a block that has not left, and every
\* generation that ended had an enter of its own.
Entering == {t \in Thread : pc[t] \in {"enterRetain", "async", "block"}}
Counted == /\ dg_state.value = Cardinality(Entering)
           /\ dg_state.gen + dg_state.value <= entered

Structure == Types /\ Roles /\ BlocksKnown /\ Counted

\* OneFires without counting: at most one thread is responsible, none while the flag
\* is set or the list is empty, and one otherwise.
OneReader ==
  /\ \A t, u \in Thread : Responsible(t) /\ Responsible(u) => t = u
  /\ dg_state.notifs => dg_notify # <<>> /\ \A t \in Thread : ~Responsible(t)
  /\ \A t \in Thread : Responsible(t) => dg_notify # <<>>
  /\ dg_notify # <<>> => dg_state.notifs \/ \E t \in Thread : Responsible(t)

\* What a thread in wait relies on: the flag stays as long as its generation lasts, and
\* once that is over, the group has been empty, and whoever sleeps will be woken by a
\* worker that has taken the flag, or by one that is about to take it.
WaitsKept ==
  \A c \in Client : pc[c] \in InWait =>
    /\ frame[c].old.gen <= dg_state.gen
    /\ frame[c].old.gen = dg_state.gen => dg_state.waiters /\ dg_state.value > 0
    /\ frame[c].old.gen # dg_state.gen <=> c \in emptied
    /\ pc[c] = "asleep" /\ frame[c].old.gen # dg_state.gen =>
         \E w \in Worker : /\ frame[w].old.waiters
                           /\ \/ pc[w] \in {"capture", "submit", "wake"}
                              \/ pc[w] = "clear" /\ dg_state.waiters

\* The references: one per client that holds one, one for the current generation once
\* its first enter has retained, one per worker that ended a generation and has not
\* released it, one for the list once its first notify has retained, and one per
\* thread that carries the list's reference after it captured the list.
Leaving == {w \in Worker : pc[w] \in {"clear"} \cup InWake}
Carrying == {t \in Thread : pc[t] \in {"submit", "wake", "release"} /\ frame[t].old.notifs}
EnterRef == IF dg_state.value > 0 /\ \A t \in Thread : pc[t] # "enterRetain" THEN 1 ELSE 0
ListRef == IF dg_notify # <<>> /\ \A t \in Thread : pc[t] # "retain" THEN 1 ELSE 0
RefsCounted ==
  /\ refs = Cardinality(holds) + EnterRef + Cardinality(Leaving) + ListRef + Cardinality(Carrying)
  /\ \A t, u \in Thread : pc[t] = "enterRetain" /\ pc[u] = "enterRetain" => t = u

\* The inductive invariant.
IInv == Structure /\ OneReader /\ FlagsHaveReader /\ WaitsKept /\ RefsCounted

-----------------------------------------------------------------------------
(* Types                                                                     *)

\* What the operations on the word return.
LEMMA WordOps ==
  /\ ZeroWord \in Word
  /\ \A s \in Word : /\ Cleared(s) \in Word
                     /\ [s EXCEPT !.notifs = TRUE] \in Word
                     /\ [s EXCEPT !.waiters = TRUE] \in Word
<1>1. ZeroWord \in Word
  BY GroupAssumption DEF ZeroWord, Word
<1>2. ASSUME NEW s \in Word
      PROVE  /\ Cleared(s) \in Word
             /\ [s EXCEPT !.notifs = TRUE] \in Word
             /\ [s EXCEPT !.waiters = TRUE] \in Word
  <2>1. (s.waiters /\ s.value > 0) \in BOOLEAN
    OBVIOUS
  <2>2. QED
    BY <2>1 DEF Word, Cleared
<1>3. QED
  BY <1>1, <1>2

\* Assigning a local variable keeps the type of the frames.
LEMMA FrameOps ==
  ASSUME NEW f \in [Thread -> Frame], NEW t \in Thread
  PROVE  /\ [f EXCEPT ![t] = NoFrame] \in [Thread -> Frame]
         /\ \A w \in Word : [f EXCEPT ![t].old = w] \in [Thread -> Frame]
         /\ \A w \in Word, b \in BOOLEAN :
              [f EXCEPT ![t].old = w, ![t].forever = b] \in [Thread -> Frame]
         /\ \A b \in Block : [f EXCEPT ![t].block = b] \in [Thread -> Frame]
         /\ \A b \in BOOLEAN : [f EXCEPT ![t].first = b] \in [Thread -> Frame]
         /\ \A q \in Seq(Block) : [f EXCEPT ![t].snapshot = q] \in [Thread -> Frame]
<1>1. NoFrame \in Frame
  <2>1. ZeroWord \in Word /\ <<>> \in Seq(Block)
    BY WordOps
  <2>2. QED
    BY <2>1 DEF NoFrame, Frame
<1>2. QED
  BY <1>1 DEF Frame

\* Control points are never anything else.
LEMMA PCType ==
  /\ {"idle", "enterRetain", "async", "block", "clear", "push", "retain", "link", "flag",
      "futex", "asleep", "woken", "expired", "capture", "submit", "wake", "release"} = PC
BY DEF PC, InNotify, InWait, InWake

\* Every step keeps the types.
LEMMA TypesStep == Structure /\ [Next]_vars => Types'
<1> SUFFICES ASSUME Structure, [Next]_vars PROVE Types'
  OBVIOUS
<1> USE GroupAssumption DEF Structure, Types
<1>c. Client \subseteq Thread /\ Worker \subseteq Thread
  BY DEF Thread
<1>w. /\ dg_state.value \in 0..MaxEnter /\ dg_state.gen \in 0..MaxEnter
      /\ dg_state.gen + dg_state.value <= entered
      /\ \A t \in Thread : frame[t].old \in Word /\ frame[t].snapshot \in Seq(Block)
  BY DEF Word, Frame, Counted
<1>1. ASSUME NEW t \in Thread, LeaveAdd(t) PROVE Types'
  <2> DEFINE last == dg_state.value = 1
             sum == [dg_state EXCEPT !.value = @ - 1, !.gen = IF last THEN @ + 1 ELSE @]
  <2>0. t \in Entering /\ IsFiniteSet(Entering)
    <3>1. IsFiniteSet(Thread)
      BY FS_Union DEF Thread
    <3>2. QED
      BY <1>1, <3>1, FS_Subset DEF LeaveAdd, Entering
  <2>1. dg_state.value # 0
    BY <2>0, FS_EmptySet DEF Counted
  <2>2. sum \in Word
    <3>1. dg_state.value - 1 \in 0..MaxEnter
          /\ (IF last THEN dg_state.gen + 1 ELSE dg_state.gen) \in 0..MaxEnter
      BY <1>w, <2>1
    <3>2. QED
      BY <3>1 DEF Word
  <2>3. dg_state' = sum /\ UNCHANGED <<dg_notify, linked, refs, use>>
    BY <1>1 DEF LeaveAdd
  <2>4. \A c \in Client : pc[c] \in InWait => c \in Waiter
    BY DEF Roles
  <2>5. emptied' \subseteq Waiter
    BY <1>1, <2>4 DEF LeaveAdd
  <2>6. pc' \in [Thread -> PC]
    BY <1>1, PCType DEF LeaveAdd, Goto, Return
  <2>7. frame' = [frame EXCEPT ![t].old = sum] \/ frame' = [frame EXCEPT ![t] = NoFrame]
    BY <1>1 DEF LeaveAdd, Return
  <2>8. frame' \in [Thread -> Frame]
    BY <2>2, <2>7, FrameOps
  <2>9. QED
    BY <2>2, <2>3, <2>5, <2>6, <2>8 DEF use
<1>2. ASSUME NEW t \in Thread, LeaveClear(t) PROVE Types'
  <2>1. dg_state' \in Word
    BY <1>2, <1>w, WordOps DEF LeaveClear
  <2>2. pc' \in [Thread -> PC]
    BY <1>2, PCType DEF LeaveClear, Goto
  <2>3. frame' \in [Thread -> Frame]
    <3>1. frame' = frame \/ frame' = [frame EXCEPT ![t].old = dg_state]
      BY <1>2 DEF LeaveClear, Return
    <3>2. QED
      BY <3>1, FrameOps
  <2>4. QED
    BY <1>2, <2>1, <2>2, <2>3 DEF LeaveClear, use
<1>3. ASSUME NEW t \in Thread, WakeCapture(t) PROVE Types'
  <2>1. pc' \in [Thread -> PC]
    BY <1>3, PCType DEF WakeCapture, Goto
  <2>2. frame' \in [Thread -> Frame]
    <3>1. frame' = frame \/ frame' = [frame EXCEPT ![t].snapshot = dg_notify]
      BY <1>3 DEF WakeCapture, Return
    <3>2. QED
      BY <3>1, FrameOps
  <2>3. dg_notify' \in Seq(Block)
    <3>1. dg_notify' = <<>> \/ dg_notify' = dg_notify
      BY <1>3 DEF WakeCapture
    <3>2. <<>> \in Seq(Block)
      OBVIOUS
    <3>3. QED
      BY <3>1, <3>2
  <2>4. QED
    BY <1>3, <2>1, <2>2, <2>3 DEF WakeCapture, use
<1>4. ASSUME NEW t \in Thread, WakeSubmit(t) PROVE Types'
  <2> DEFINE dc == Head(frame[t].snapshot)
             rest == Tail(frame[t].snapshot)
  <2>0. frame[t].snapshot \in Seq(Block) /\ frame[t].snapshot # <<>>
    BY <1>4, <1>w DEF WakeSubmit, BlocksKnown
  <2>1. rest \in Seq(Block) /\ dc = frame[t].snapshot[1] /\ Len(frame[t].snapshot) >= 1
    BY <2>0
  <2>2. dc \in notified
    BY <2>0, <2>1 DEF BlocksKnown
  <2>3. pc' \in [Thread -> PC]
    BY <1>4, PCType DEF WakeSubmit, Goto
  <2>4. frame' = [frame EXCEPT ![t].snapshot = rest] /\ submitted' = submitted \cup {dc}
        /\ UNCHANGED <<group, holds, entered, notified, emptied>>
    BY <1>4 DEF WakeSubmit
  <2>5. frame' \in [Thread -> Frame]
    BY <2>1, <2>4, FrameOps
  <2>6. QED
    BY <2>2, <2>3, <2>4, <2>5 DEF group
<1>5. ASSUME NEW t \in Thread, WakeWaiters(t) PROVE Types'
  BY <1>5, PCType DEF WakeWaiters, group, use
<1>6. ASSUME NEW t \in Thread, WakeRelease(t) PROVE Types'
  <2>1. frame' \in [Thread -> Frame]
    BY <1>6, FrameOps DEF WakeRelease, Return
  <2>2. QED
    BY <1>6, <2>1, PCType DEF WakeRelease, Return, Goto, Due, use
<1>7. ASSUME NEW t \in Thread, EnterRetain(t) PROVE Types'
  BY <1>7, PCType DEF EnterRetain, Goto, use
<1>8. ASSUME NEW t \in Thread, ContinuationAsync(t) PROVE Types'
  BY <1>8, PCType DEF ContinuationAsync, group, use
<1>9. ASSUME NEW t \in Thread, NotifyPush(t) PROVE Types'
  <2>1. frame[t].block \in Block
    BY <1>9 DEF NotifyPush, BlocksKnown, InNotify
  <2>2. dg_notify' \in Seq(Block)
    BY <1>9, <2>1 DEF NotifyPush
  <2>3. frame' \in [Thread -> Frame]
    BY <1>9, FrameOps DEF NotifyPush
  <2>4. pc' \in [Thread -> PC]
    BY <1>9, PCType DEF NotifyPush, Goto
  <2>5. QED
    BY <1>9, <2>2, <2>3, <2>4 DEF NotifyPush, use
<1>10. ASSUME NEW t \in Thread, NotifyRetain(t) PROVE Types'
  BY <1>10, PCType DEF NotifyRetain, Goto, use
<1>11. ASSUME NEW t \in Thread, NotifyLink(t) PROVE Types'
  <2>1. frame[t].block \in Block
    BY <1>11 DEF NotifyLink, BlocksKnown, InNotify
  <2>2. pc' \in [Thread -> PC]
    BY <1>11, PCType DEF NotifyLink, Goto, Return
  <2>3. frame' \in [Thread -> Frame]
    <3>1. frame' = frame \/ frame' = [frame EXCEPT ![t] = NoFrame]
      BY <1>11 DEF NotifyLink, Return
    <3>2. QED
      BY <3>1, FrameOps
  <2>4. QED
    BY <1>11, <2>1, <2>2, <2>3 DEF NotifyLink, use
<1>12. ASSUME NEW t \in Thread, NotifyFlag(t) PROVE Types'
  <2>1. dg_state' \in Word
    BY <1>12, WordOps DEF NotifyFlag
  <2>2. pc' \in [Thread -> PC]
    BY <1>12, PCType DEF NotifyFlag, Goto, Return
  <2>3. frame' \in [Thread -> Frame]
    <3>1. frame' = [frame EXCEPT ![t] = NoFrame] \/ frame' = [frame EXCEPT ![t].old = [dg_state EXCEPT !.notifs = TRUE]]
      BY <1>12 DEF NotifyFlag, Return
    <3>2. [dg_state EXCEPT !.notifs = TRUE] \in Word
      BY WordOps
    <3>3. [frame EXCEPT ![t].old = [dg_state EXCEPT !.notifs = TRUE]] \in [Thread -> Frame]
      BY <3>2, FrameOps
    <3>4. [frame EXCEPT ![t] = NoFrame] \in [Thread -> Frame]
      BY FrameOps
    <3>5. QED
      BY <3>1, <3>3, <3>4
  <2>4. QED
    BY <1>12, <2>1, <2>2, <2>3 DEF NotifyFlag, use
<1>13. ASSUME NEW t \in Thread, FutexWait(t) \/ WaitAgain(t) PROVE Types'
  BY <1>13, PCType DEF FutexWait, WaitAgain, Goto, group, use
<1>14. ASSUME NEW t \in Thread, WaitReturns0(t) \/ WaitTimesOut(t) PROVE Types'
  <2>0. frame' = [frame EXCEPT ![t] = NoFrame]
    BY <1>14 DEF WaitReturns0, WaitTimesOut, Return
  <2>1. frame' \in [Thread -> Frame]
    BY <2>0, FrameOps
  <2>2. QED
    BY <1>14, <2>1, PCType DEF WaitReturns0, WaitTimesOut, Return, Goto, group, use
<1>15. ASSUME NEW c \in Client, Enter(c) PROVE Types'
  <2>1. dg_state' \in Word /\ entered' \in 0..MaxEnter
    BY <1>c, <1>15, <1>w DEF Enter, Word
  <2>2. QED
    BY <1>c, <1>15, <2>1, PCType DEF Enter, Goto
<1>16. ASSUME NEW c \in Client, Notify(c) PROVE Types'
  <2>1. FreshBlock \in Block
    BY <1>c, <1>16 DEF Notify, FreshBlock
  <2>2. frame' \in [Thread -> Frame]
    BY <1>c, <1>16, <2>1, FrameOps DEF Notify
  <2>3. pc' \in [Thread -> PC]
    BY <1>c, <1>16, PCType DEF Notify, Goto
  <2>4. QED
    BY <1>c, <1>16, <2>1, <2>2, <2>3 DEF Notify, group
<1>17. ASSUME NEW c \in Client, Release(c) PROVE Types'
  BY <1>c, <1>17 DEF Release
<1>18. ASSUME NEW c \in Client, FutexTimeout(c) \/ FutexInterrupted(c) PROVE Types'
  BY <1>c, <1>18, PCType DEF FutexTimeout, FutexInterrupted, Goto, group, use
<1>19. ASSUME NEW c \in Client, NEW forever \in BOOLEAN, Wait(c, forever) PROVE Types'
  <2>1. dg_state' \in Word
    BY <1>c, <1>19, WordOps DEF Wait
  <2>2. frame' = [frame EXCEPT ![c].old = dg_state', ![c].forever = forever]
    BY <1>c, <1>19 DEF Wait
  <2>3. frame' \in [Thread -> Frame]
    BY <2>1, <2>2, FrameOps
  <2>4. QED
    BY <1>c, <1>19, <2>1, <2>3, PCType DEF Wait, Goto, use
<1>20. CASE UNCHANGED vars
  BY <1>20 DEF vars, group, use
<1>21. QED
  BY <1>1, <1>2, <1>3, <1>4, <1>5, <1>6, <1>7, <1>8, <1>9, <1>10, <1>11, <1>12, <1>13, <1>14,
     <1>15, <1>16, <1>17, <1>18, <1>19, <1>20 DEF Next, Step

\* Every step keeps threads to their roles.
LEMMA RolesStep == Structure /\ [Next]_vars => Roles'
<1> SUFFICES ASSUME Structure, [Next]_vars PROVE Roles'
  OBVIOUS
<1>t. Types /\ Roles /\ BlocksKnown
  BY DEF Structure
<1>c. Client \subseteq Thread /\ Worker \subseteq Thread /\ Client \cap Worker = {}
  BY GroupAssumption DEF Thread
<1>1. ASSUME NEW t \in Thread, LeaveAdd(t) PROVE Roles'
  BY <1>t, <1>c, <1>1 DEF LeaveAdd, Types, Roles, Goto, Return, WorkerPC, ClientPC, InNotify,
     InWait, InWake, use
<1>2. ASSUME NEW t \in Thread, LeaveClear(t) PROVE Roles'
  BY <1>t, <1>c, <1>2 DEF LeaveClear, Types, Roles, Goto, Return, WorkerPC, ClientPC, InNotify,
     InWait, InWake, use
<1>3. ASSUME NEW t \in Thread, WakeCapture(t) PROVE Roles'
  BY <1>t, <1>c, <1>3 DEF WakeCapture, Types, Roles, Goto, Return, WorkerPC, ClientPC, InNotify,
     InWait, InWake, use
<1>4. ASSUME NEW t \in Thread, WakeSubmit(t) PROVE Roles'
  BY <1>t, <1>c, <1>4 DEF WakeSubmit, Types, Roles, Goto, Return, WorkerPC, ClientPC, InNotify,
     InWait, InWake, use
<1>5. ASSUME NEW t \in Thread, WakeWaiters(t) PROVE Roles'
  BY <1>t, <1>c, <1>5 DEF WakeWaiters, Types, Roles, Goto, Return, WorkerPC, ClientPC, InNotify,
     InWait, InWake, use
<1>6. ASSUME NEW t \in Thread, WakeRelease(t) PROVE Roles'
  BY <1>t, <1>c, <1>6 DEF WakeRelease, Types, Roles, Goto, Return, WorkerPC, ClientPC, InNotify,
     InWait, InWake, use
<1>7. ASSUME NEW t \in Thread, EnterRetain(t) PROVE Roles'
  BY <1>t, <1>c, <1>7 DEF EnterRetain, Types, Roles, Goto, Return, WorkerPC, ClientPC, InNotify,
     InWait, InWake, use
<1>8. ASSUME NEW t \in Thread, ContinuationAsync(t) PROVE Roles'
  BY <1>t, <1>c, <1>8 DEF ContinuationAsync, Types, Roles, Goto, Return, WorkerPC, ClientPC,
     InNotify, InWait, InWake, use
<1>9. ASSUME NEW t \in Thread, NotifyPush(t) PROVE Roles'
  BY <1>t, <1>c, <1>9 DEF NotifyPush, Types, Roles, Goto, Return, WorkerPC, ClientPC, InNotify,
     InWait, InWake, use
<1>10. ASSUME NEW t \in Thread, NotifyRetain(t) PROVE Roles'
  BY <1>t, <1>c, <1>10 DEF NotifyRetain, Types, Roles, Goto, Return, WorkerPC, ClientPC,
     InNotify, InWait, InWake, use
<1>11. ASSUME NEW t \in Thread, NotifyLink(t) PROVE Roles'
  BY <1>t, <1>c, <1>11 DEF NotifyLink, Types, Roles, Goto, Return, WorkerPC, ClientPC, InNotify,
     InWait, InWake, use
<1>12. ASSUME NEW t \in Thread, NotifyFlag(t) PROVE Roles'
  BY <1>t, <1>c, <1>12 DEF NotifyFlag, Types, Roles, Goto, Return, WorkerPC, ClientPC, InNotify,
     InWait, InWake, use
<1>13. ASSUME NEW t \in Thread, FutexWait(t) PROVE Roles'
  BY <1>t, <1>c, <1>13 DEF FutexWait, Types, Roles, Goto, Return, WorkerPC, ClientPC, InNotify,
     InWait, InWake, use
<1>14. ASSUME NEW t \in Thread, WaitReturns0(t) PROVE Roles'
  BY <1>t, <1>c, <1>14 DEF WaitReturns0, Types, Roles, Goto, Return, WorkerPC, ClientPC,
     InNotify, InWait, InWake, use
<1>15. ASSUME NEW t \in Thread, WaitTimesOut(t) PROVE Roles'
  BY <1>t, <1>c, <1>15 DEF WaitTimesOut, Types, Roles, Goto, Return, WorkerPC, ClientPC,
     InNotify, InWait, InWake, use
<1>16. ASSUME NEW t \in Thread, WaitAgain(t) PROVE Roles'
  BY <1>t, <1>c, <1>16 DEF WaitAgain, Types, Roles, Goto, Return, WorkerPC, ClientPC, InNotify,
     InWait, InWake, use
<1>17. ASSUME NEW c \in Client, Enter(c) PROVE Roles'
  BY <1>t, <1>c, <1>17 DEF Enter, Types, Roles, Goto, Return, WorkerPC, ClientPC, InNotify,
     InWait, InWake, use
<1>18. ASSUME NEW c \in Client, Notify(c) PROVE Roles'
  BY <1>t, <1>c, <1>18 DEF Notify, Types, Roles, Goto, Return, WorkerPC, ClientPC, InNotify,
     InWait, InWake, use
<1>19. ASSUME NEW c \in Client, Release(c) PROVE Roles'
  BY <1>t, <1>c, <1>19 DEF Release, Types, Roles, Goto, Return, WorkerPC, ClientPC, InNotify,
     InWait, InWake, use
<1>20. ASSUME NEW c \in Client, FutexTimeout(c) PROVE Roles'
  BY <1>t, <1>c, <1>20 DEF FutexTimeout, Types, Roles, Goto, Return, WorkerPC, ClientPC,
     InNotify, InWait, InWake, use
<1>21. ASSUME NEW c \in Client, FutexInterrupted(c) PROVE Roles'
  BY <1>t, <1>c, <1>21 DEF FutexInterrupted, Types, Roles, Goto, Return, WorkerPC, ClientPC,
     InNotify, InWait, InWake, use
<1>22. ASSUME NEW c \in Client, NEW forever \in BOOLEAN, Wait(c, forever) PROVE Roles'
  BY <1>t, <1>c, <1>22 DEF Wait, Types, Roles, Goto, Return, WorkerPC, ClientPC, InNotify,
     InWait, InWake, use
<1>23. CASE UNCHANGED vars
  BY <1>t, <1>c, <1>23 DEF vars, group, use, Types, Roles, Goto, Return, WorkerPC, ClientPC,
     InNotify, InWait, InWake
<1>24. QED
  BY <1>1, <1>2, <1>3, <1>4, <1>5, <1>6, <1>7, <1>8, <1>9, <1>10, <1>11, <1>12, <1>13, <1>14,
     <1>15, <1>16, <1>17, <1>18, <1>19, <1>20, <1>21, <1>22, <1>23 DEF Next, Step

\* Every step keeps what is known of the blocks.
LEMMA BlocksStep == Structure /\ [Next]_vars => BlocksKnown'
<1> SUFFICES ASSUME Structure, [Next]_vars PROVE BlocksKnown'
  OBVIOUS
<1>t. Types /\ Roles /\ BlocksKnown
  BY DEF Structure
<1>c. Client \subseteq Thread /\ Worker \subseteq Thread /\ Client \cap Worker = {}
  BY GroupAssumption DEF Thread
<1>s. /\ <<>> \in Seq(Block) /\ Len(<<>>) = 0 /\ NoFrame.snapshot = <<>>
      /\ \A u \in Thread : frame[u].snapshot \in Seq(Block)
  BY <1>t DEF Types, Frame, NoFrame
<1>1. ASSUME NEW t \in Thread, LeaveAdd(t) PROVE BlocksKnown'
  <2>1. /\ \A u \in Thread : frame'[u].snapshot = frame[u].snapshot \/ frame'[u].snapshot = <<>>
        /\ \A u \in Thread : u # t => frame'[u] = frame[u] /\ pc'[u] = pc[u]
        /\ pc'[t] \in {"idle", "clear"} /\ UNCHANGED <<dg_notify, notified>>
    <3>1. \/ frame' = [frame EXCEPT ![t] = NoFrame]
          \/ \E w : frame' = [frame EXCEPT ![t].old = w]
      BY <1>1 DEF LeaveAdd, Return
    <3>2. \A u \in Thread : u # t => frame'[u] = frame[u]
      BY <1>t, <3>1 DEF Types
    <3>3. frame'[t].snapshot = frame[t].snapshot \/ frame'[t].snapshot = <<>>
      BY <1>t, <1>s, <3>1 DEF Types, Frame
    <3>4. QED
      BY <1>t, <1>1, <3>2, <3>3 DEF LeaveAdd, Goto, Return, Types, use
  <2>2. QED
    BY <1>t, <1>s, <2>1 DEF BlocksKnown, InNotify
<1>2. ASSUME NEW t \in Thread, LeaveClear(t) PROVE BlocksKnown'
  <2>1. /\ \A u \in Thread : frame'[u].snapshot = frame[u].snapshot
        /\ \A u \in Thread : u # t => frame'[u] = frame[u] /\ pc'[u] = pc[u]
        /\ pc'[t] \in {"clear", "capture"} /\ UNCHANGED <<dg_notify, notified>>
    <3>1. frame' = frame \/ frame' = [frame EXCEPT ![t].old = dg_state]
      BY <1>2 DEF LeaveClear
    <3>2. \A u \in Thread : u # t => frame'[u] = frame[u]
      BY <1>t, <3>1 DEF Types
    <3>3. frame'[t].snapshot = frame[t].snapshot
      BY <1>t, <3>1 DEF Types, Frame
    <3>4. QED
      BY <1>t, <1>2, <3>2, <3>3 DEF LeaveClear, Goto, Types, use
  <2>2. QED
    BY <1>t, <1>s, <2>1 DEF BlocksKnown, InNotify
<1>3. ASSUME NEW t \in Thread, WakeCapture(t) PROVE BlocksKnown'
  BY <1>t, <1>c, <1>s, <1>3 DEF WakeCapture, Types, BlocksKnown, Goto, Return, InNotify, use,
     group, Frame
<1>4. ASSUME NEW t \in Thread, WakeSubmit(t) PROVE BlocksKnown'
  <2> DEFINE snap == frame[t].snapshot
  <2>1. snap \in Seq(Block) /\ snap # <<>>
    BY <1>t, <1>s, <1>4 DEF WakeSubmit, BlocksKnown
  <2>2. \A i \in 1..Len(Tail(snap)) : i + 1 \in 1..Len(snap) /\ Tail(snap)[i] = snap[i + 1]
    BY <2>1
  <2>3. /\ \A u \in Thread : u # t => frame'[u] = frame[u] /\ pc'[u] = pc[u]
        /\ frame'[t].snapshot = Tail(snap)
        /\ pc'[t] = (IF Tail(snap) = <<>> THEN "wake" ELSE "submit")
        /\ UNCHANGED <<dg_notify, notified>>
    BY <1>t, <1>4 DEF WakeSubmit, Goto, Types, Frame, group
  <2>4. \A i \in 1..Len(frame'[t].snapshot) : frame'[t].snapshot[i] \in notified
    BY <1>t, <2>2, <2>3 DEF BlocksKnown
  <2>5. QED
    BY <1>t, <2>3, <2>4 DEF BlocksKnown, InNotify
<1>5. ASSUME NEW t \in Thread, WakeWaiters(t) PROVE BlocksKnown'
  BY <1>t, <1>c, <1>s, <1>5 DEF WakeWaiters, Types, BlocksKnown, Goto, Return, InNotify, use,
     group, Frame
<1>6. ASSUME NEW t \in Thread, WakeRelease(t) PROVE BlocksKnown'
  BY <1>t, <1>c, <1>s, <1>6 DEF WakeRelease, Types, BlocksKnown, Goto, Return, InNotify, use,
     group, Frame
<1>7. ASSUME NEW t \in Thread, EnterRetain(t) PROVE BlocksKnown'
  BY <1>t, <1>c, <1>s, <1>7 DEF EnterRetain, Types, BlocksKnown, Goto, Return, InNotify, use,
     group, Frame
<1>8. ASSUME NEW t \in Thread, ContinuationAsync(t) PROVE BlocksKnown'
  BY <1>t, <1>c, <1>s, <1>8 DEF ContinuationAsync, Types, BlocksKnown, Goto, Return, InNotify,
     use, group, Frame
<1>9. ASSUME NEW t \in Thread, NotifyPush(t) PROVE BlocksKnown'
  <2>1. /\ frame[t].block \in notified /\ frame[t].block \in Block
        /\ dg_notify' = Append(dg_notify, frame[t].block)
    BY <1>t, <1>9 DEF NotifyPush, BlocksKnown, InNotify, Types
  <2>2. \A i \in 1..Len(dg_notify') : (i \in 1..Len(dg_notify) /\ dg_notify'[i] = dg_notify[i])
                                      \/ dg_notify'[i] = frame[t].block
    BY <1>t, <2>1 DEF Types
  <2>3. /\ \A u \in Thread : u # t => frame'[u] = frame[u] /\ pc'[u] = pc[u]
        /\ frame'[t].snapshot = frame[t].snapshot /\ frame'[t].block = frame[t].block
        /\ frame'[t].first = (dg_notify = <<>>)
        /\ pc'[t] = (IF dg_notify = <<>> THEN "retain" ELSE "link")
        /\ notified' = notified
    BY <1>t, <1>9 DEF NotifyPush, Goto, Types, Frame, use
  <2>4. \A i \in 1..Len(dg_notify') : dg_notify'[i] \in notified'
    BY <1>t, <2>1, <2>2, <2>3 DEF BlocksKnown
  <2>5. QED
    BY <1>t, <2>1, <2>3, <2>4 DEF BlocksKnown, InNotify
<1>10. ASSUME NEW t \in Thread, NotifyRetain(t) PROVE BlocksKnown'
  BY <1>t, <1>c, <1>s, <1>10 DEF NotifyRetain, Types, BlocksKnown, Goto, Return, InNotify, use,
     group, Frame
<1>11. ASSUME NEW t \in Thread, NotifyLink(t) PROVE BlocksKnown'
  BY <1>t, <1>c, <1>s, <1>11 DEF NotifyLink, Types, BlocksKnown, Goto, Return, InNotify, use,
     group, Frame
<1>12. ASSUME NEW t \in Thread, NotifyFlag(t) PROVE BlocksKnown'
  <2>1. /\ \A u \in Thread : frame'[u].snapshot = frame[u].snapshot \/ frame'[u].snapshot = <<>>
        /\ \A u \in Thread : u # t => frame'[u] = frame[u] /\ pc'[u] = pc[u]
        /\ pc'[t] \in {"idle", "capture"} /\ UNCHANGED <<dg_notify, notified>>
    <3>1. \/ frame' = [frame EXCEPT ![t] = NoFrame]
          \/ \E w : frame' = [frame EXCEPT ![t].old = w]
      BY <1>12 DEF NotifyFlag, Return
    <3>2. \A u \in Thread : u # t => frame'[u] = frame[u]
      BY <1>t, <3>1 DEF Types
    <3>3. frame'[t].snapshot = frame[t].snapshot \/ frame'[t].snapshot = <<>>
      BY <1>t, <1>s, <3>1 DEF Types, Frame
    <3>4. QED
      BY <1>t, <1>12, <3>2, <3>3 DEF NotifyFlag, Goto, Return, Types, use
  <2>2. QED
    BY <1>t, <1>s, <2>1 DEF BlocksKnown, InNotify
<1>13. ASSUME NEW t \in Thread, FutexWait(t) PROVE BlocksKnown'
  BY <1>t, <1>c, <1>s, <1>13 DEF FutexWait, Types, BlocksKnown, Goto, Return, InNotify, use,
     group, Frame
<1>14. ASSUME NEW t \in Thread, WaitReturns0(t) PROVE BlocksKnown'
  BY <1>t, <1>c, <1>s, <1>14 DEF WaitReturns0, Types, BlocksKnown, Goto, Return, InNotify, use,
     group, Frame
<1>15. ASSUME NEW t \in Thread, WaitTimesOut(t) PROVE BlocksKnown'
  BY <1>t, <1>c, <1>s, <1>15 DEF WaitTimesOut, Types, BlocksKnown, Goto, Return, InNotify, use,
     group, Frame
<1>16. ASSUME NEW t \in Thread, WaitAgain(t) PROVE BlocksKnown'
  BY <1>t, <1>c, <1>s, <1>16 DEF WaitAgain, Types, BlocksKnown, Goto, Return, InNotify, use,
     group, Frame
<1>17. ASSUME NEW c \in Client, Enter(c) PROVE BlocksKnown'
  BY <1>t, <1>c, <1>s, <1>17 DEF Enter, Types, BlocksKnown, Goto, Return, InNotify, use, group,
     Frame
<1>18. ASSUME NEW c \in Client, Notify(c) PROVE BlocksKnown'
  BY <1>t, <1>c, <1>s, <1>18 DEF Notify, Types, BlocksKnown, Goto, Return, InNotify, use, group,
     Frame
<1>19. ASSUME NEW c \in Client, Release(c) PROVE BlocksKnown'
  BY <1>t, <1>c, <1>s, <1>19 DEF Release, Types, BlocksKnown, Goto, Return, InNotify, use,
     group, Frame
<1>20. ASSUME NEW c \in Client, FutexTimeout(c) PROVE BlocksKnown'
  BY <1>t, <1>c, <1>s, <1>20 DEF FutexTimeout, Types, BlocksKnown, Goto, Return, InNotify, use,
     group, Frame
<1>21. ASSUME NEW c \in Client, FutexInterrupted(c) PROVE BlocksKnown'
  BY <1>t, <1>c, <1>s, <1>21 DEF FutexInterrupted, Types, BlocksKnown, Goto, Return, InNotify,
     use, group, Frame
<1>22. ASSUME NEW c \in Client, NEW forever \in BOOLEAN, Wait(c, forever) PROVE BlocksKnown'
  BY <1>t, <1>c, <1>s, <1>22 DEF Wait, Types, BlocksKnown, Goto, Return, InNotify, use, group,
     Frame
<1>23. CASE UNCHANGED vars
  BY <1>t, <1>c, <1>s, <1>23 DEF vars, group, use, Types, BlocksKnown, Goto, Return, InNotify,
     Frame
<1>24. QED
  BY <1>1, <1>2, <1>3, <1>4, <1>5, <1>6, <1>7, <1>8, <1>9, <1>10, <1>11, <1>12, <1>13, <1>14,
     <1>15, <1>16, <1>17, <1>18, <1>19, <1>20, <1>21, <1>22, <1>23 DEF Next, Step

-----------------------------------------------------------------------------
(* The counts                                                                *)

\* A set that gains or loses one element, or has one put in the place of another.
LEMMA OneMore ==
  ASSUME NEW S, NEW R, NEW x, IsFiniteSet(S), x \notin S, R = S \cup {x}
  PROVE  Cardinality(R) = Cardinality(S) + 1 /\ Cardinality(S) \in Nat
BY FS_AddElement, FS_CardinalityType

\* A set that loses one element.
LEMMA OneLess ==
  ASSUME NEW S, NEW R, NEW x, IsFiniteSet(S), x \in S, R = S \ {x}
  PROVE  Cardinality(R) = Cardinality(S) - 1 /\ Cardinality(S) \in Nat /\ Cardinality(S) >= 1
<1>1. Cardinality(S \ {x}) = Cardinality(S) - 1
  BY FS_RemoveElement
<1>2. Cardinality(S) \in Nat /\ Cardinality(S \ {x}) \in Nat
  BY FS_CardinalityType, FS_RemoveElement
<1>3. QED
  BY <1>1, <1>2

\* A set in which one element takes the place of another.
LEMMA Exchanged ==
  ASSUME NEW S, NEW R, NEW x, NEW y, IsFiniteSet(S), x \in S, y \notin S, R = (S \ {x}) \cup {y}
  PROVE  Cardinality(R) = Cardinality(S)
<1> DEFINE Q == S \ {x}
<1>1. Cardinality(Q) = Cardinality(S) - 1 /\ IsFiniteSet(Q) /\ Cardinality(S) \in Nat
  BY OneLess, FS_RemoveElement
<1>2. Cardinality(R) = Cardinality(Q) + 1
  <2>1. y \notin Q /\ R = Q \cup {y}
    OBVIOUS
  <2> HIDE DEF Q
  <2>2. QED
    BY <1>1, <2>1, OneMore
<1>3. QED
  BY <1>1, <1>2

\* Sets of threads are finite.
LEMMA ThreadsFinite == ASSUME NEW S, S \subseteq Thread PROVE IsFiniteSet(S) /\ Cardinality(S) \in Nat
<1>1. IsFiniteSet(Thread)
  BY GroupAssumption, FS_Union DEF Thread
<1>2. QED
  BY <1>1, FS_Subset, FS_CardinalityType

\* Every step keeps the count of those who entered.
LEMMA CountedStep == Structure /\ [Next]_vars => Counted'
<1> SUFFICES ASSUME Structure, [Next]_vars PROVE Counted'
  OBVIOUS
<1>t. Types /\ Roles /\ BlocksKnown
  BY DEF Structure
<1>c. Client \subseteq Thread /\ Worker \subseteq Thread /\ Client \cap Worker = {}
  BY GroupAssumption DEF Thread
<1>e. IsFiniteSet(Entering) /\ dg_state.value = Cardinality(Entering)
      /\ dg_state.value \in Nat /\ dg_state.gen \in Nat /\ entered \in Nat
      /\ dg_state.gen + dg_state.value <= entered
  BY <1>t, ThreadsFinite DEF Structure, Counted, Entering, Types, Word
<1>k. ASSUME Entering' = Entering, entered' = entered,
             dg_state'.value = dg_state.value, dg_state'.gen = dg_state.gen
      PROVE  Counted'
  BY <1>e, <1>k DEF Counted
<1>1. ASSUME NEW t \in Thread, LeaveClear(t) PROVE Counted'
  <2>1. dg_state' = dg_state \/ dg_state' = Cleared(dg_state)
    BY <1>1 DEF LeaveClear
  <2>2. dg_state'.value = dg_state.value /\ dg_state'.gen = dg_state.gen
    BY <1>t, <2>1 DEF Types, Word, Cleared
  <2>3. Entering' = Entering /\ entered' = entered
    BY <1>t, <1>1 DEF LeaveClear, Types, Goto, Entering, use
  <2>4. QED
    BY <1>k, <2>2, <2>3
<1>2. ASSUME NEW t \in Thread, WakeCapture(t) PROVE Counted'
  <2>1. Entering' = Entering /\ entered' = entered
        /\ dg_state'.value = dg_state.value /\ dg_state'.gen = dg_state.gen
    BY <1>t, <1>c, <1>2 DEF WakeCapture, Types, Goto, Return, Entering, Word, Cleared, group, use
  <2>2. QED
    BY <1>k, <2>1
<1>3. ASSUME NEW t \in Thread, WakeSubmit(t) \/ WakeWaiters(t) \/ WakeRelease(t) PROVE Counted'
  <2>1. Entering' = Entering /\ entered' = entered
        /\ dg_state'.value = dg_state.value /\ dg_state'.gen = dg_state.gen
    BY <1>t, <1>c, <1>3 DEF WakeSubmit, WakeWaiters, WakeRelease, Types, Goto, Return, Entering, Word,
       Cleared, group, use
  <2>2. QED
    BY <1>k, <2>1
<1>4. ASSUME NEW t \in Thread, EnterRetain(t) PROVE Counted'
  <2>1. Entering' = Entering /\ entered' = entered
        /\ dg_state'.value = dg_state.value /\ dg_state'.gen = dg_state.gen
    BY <1>t, <1>c, <1>4 DEF EnterRetain, Types, Goto, Return, Entering, Word, Cleared, group, use
  <2>2. QED
    BY <1>k, <2>1
<1>5. ASSUME NEW t \in Thread, NotifyPush(t) \/ NotifyRetain(t) \/ NotifyLink(t) PROVE Counted'
  <2>1. Entering' = Entering /\ entered' = entered
        /\ dg_state'.value = dg_state.value /\ dg_state'.gen = dg_state.gen
    BY <1>t, <1>c, <1>5 DEF NotifyPush, NotifyRetain, NotifyLink, Types, Goto, Return, Entering, Word,
       Cleared, group, use
  <2>2. QED
    BY <1>k, <2>1
<1>6. ASSUME NEW t \in Thread, NotifyFlag(t) PROVE Counted'
  <2>1. dg_state' = dg_state \/ dg_state' = [dg_state EXCEPT !.notifs = TRUE]
    BY <1>6 DEF NotifyFlag
  <2>2. dg_state'.value = dg_state.value /\ dg_state'.gen = dg_state.gen
    BY <1>t, <2>1 DEF Types, Word
  <2>3. Entering' = Entering /\ entered' = entered
    BY <1>t, <1>6 DEF NotifyFlag, Types, Goto, Return, Entering, use
  <2>4. QED
    BY <1>k, <2>2, <2>3
<1>7. ASSUME NEW t \in Thread, FutexWait(t) \/ WaitReturns0(t) \/ WaitTimesOut(t) \/ WaitAgain(t) PROVE Counted'
  <2>1. Entering' = Entering /\ entered' = entered
        /\ dg_state'.value = dg_state.value /\ dg_state'.gen = dg_state.gen
    BY <1>t, <1>c, <1>7 DEF FutexWait, WaitReturns0, WaitTimesOut, WaitAgain, Types, Goto, Return,
       Entering, Word, Cleared, group, use
  <2>2. QED
    BY <1>k, <2>1
<1>8. ASSUME NEW c \in Client, Notify(c) \/ Release(c) \/ FutexTimeout(c) \/ FutexInterrupted(c) PROVE Counted'
  <2>1. Entering' = Entering /\ entered' = entered
        /\ dg_state'.value = dg_state.value /\ dg_state'.gen = dg_state.gen
    BY <1>t, <1>c, <1>8 DEF Notify, Release, FutexTimeout, FutexInterrupted, Types, Goto, Return,
       Entering, Word, Cleared, group, use
  <2>2. QED
    BY <1>k, <2>1
<1>9. ASSUME NEW c \in Client, NEW forever \in BOOLEAN, Wait(c, forever) PROVE Counted'
  <2>1. Entering' = Entering /\ entered' = entered
        /\ dg_state'.value = dg_state.value /\ dg_state'.gen = dg_state.gen
    BY <1>t, <1>c, <1>9 DEF Wait, Types, Goto, Return, Entering, Word, Cleared, group, use
  <2>2. QED
    BY <1>k, <2>1
<1>10. ASSUME NEW t \in Thread, LeaveAdd(t) PROVE Counted'
  <2>1. t \in Entering /\ Entering' = Entering \ {t}
    BY <1>t, <1>10 DEF LeaveAdd, Types, Goto, Return, Entering
  <2>2. Cardinality(Entering') = Cardinality(Entering) - 1 /\ Cardinality(Entering) >= 1
    BY <1>e, <2>1, OneLess
  <2>3. /\ dg_state'.value = dg_state.value - 1 /\ entered' = entered
        /\ dg_state'.gen = IF dg_state.value = 1 THEN dg_state.gen + 1 ELSE dg_state.gen
    BY <1>t, <1>10 DEF LeaveAdd, Types, Word, use
  <2>4. QED
    BY <1>e, <2>2, <2>3 DEF Counted
<1>11. ASSUME NEW t \in Thread, ContinuationAsync(t) PROVE Counted'
  <2>1. PICK w \in Worker : pc[w] = "idle" /\ pc' = [pc EXCEPT ![t] = "idle", ![w] = "block"]
    BY <1>11 DEF ContinuationAsync
  <2>a. pc[t] = "async" /\ w \in Thread /\ pc \in [Thread -> PC]
    BY <1>t, <1>c, <1>11 DEF ContinuationAsync, Types
  <2>2. t \in Entering /\ w \notin Entering /\ Entering' = (Entering \ {t}) \cup {w}
    <3>1. \A u \in Thread : pc'[u] = IF u = w THEN "block" ELSE IF u = t THEN "idle" ELSE pc[u]
      BY <2>1, <2>a
    <3>2. QED
      BY <2>1, <2>a, <3>1 DEF Entering
  <2>3. Cardinality(Entering') = Cardinality(Entering)
    BY <1>e, <2>2, Exchanged
  <2>4. QED
    BY <1>e, <1>11, <2>3 DEF ContinuationAsync, Counted, group, use
<1>12. ASSUME NEW c \in Client, Enter(c) PROVE Counted'
  <2>1. c \notin Entering /\ Entering' = Entering \cup {c}
    BY <1>t, <1>c, <1>12 DEF Enter, Types, Goto, Entering
  <2>2. Cardinality(Entering') = Cardinality(Entering) + 1
    BY <1>e, <2>1, OneMore
  <2>3. /\ dg_state'.value = dg_state.value + 1 /\ entered' = entered + 1
        /\ dg_state'.gen = dg_state.gen
    BY <1>t, <1>12 DEF Enter, Types, Word
  <2>4. QED
    BY <1>e, <2>2, <2>3 DEF Counted
<1>13. CASE UNCHANGED vars
  BY <1>t, <1>e, <1>13 DEF vars, group, use, Counted, Entering
<1>14. QED
  BY <1>1, <1>2, <1>3, <1>4, <1>5, <1>6, <1>7, <1>8, <1>9, <1>10, <1>11, <1>12, <1>13 DEF Next,
     Step

-----------------------------------------------------------------------------
(* The list of notifications and the flags                                   *)

\* Every step keeps the list in the care of one: the push on an empty list, the flag
\* that notify sets, the compare-and-swap of the last leave and the capture hand it on.
LEMMA ReaderStep == Structure /\ OneReader /\ [Next]_vars => OneReader'
<1> SUFFICES ASSUME Structure /\ OneReader, [Next]_vars PROVE OneReader'
  OBVIOUS
<1>t. Types /\ Roles /\ BlocksKnown
  BY DEF Structure
<1>c. Client \subseteq Thread /\ Worker \subseteq Thread /\ Client \cap Worker = {}
  BY GroupAssumption DEF Thread
<1>k. ASSUME \A u \in Thread : Responsible(u)' <=> Responsible(u),
             dg_state'.notifs = dg_state.notifs, dg_notify' = dg_notify
      PROVE  OneReader'
  BY <1>k DEF OneReader
<1>1. ASSUME NEW t \in Thread, LeaveAdd(t) PROVE OneReader'
  <2>1. dg_state'.notifs = dg_state.notifs /\ dg_notify' = dg_notify
    BY <1>t, <1>1 DEF LeaveAdd, Types, Word, Frame, NoFrame, Goto, Return, group, use
  <2>2. \A u \in Thread : Responsible(u)' <=> Responsible(u)
    BY <1>t, <1>c, <1>1 DEF LeaveAdd, Types, Word, Frame, NoFrame, Goto, Return, group, use, Responsible
  <2>3. QED
    BY <1>k, <2>1, <2>2
<1>2. ASSUME NEW t \in Thread, LeaveClear(t) PROVE OneReader'
  <2> DEFINE old == frame[t].old
  <2>1. old \in Word /\ dg_state \in Word /\ pc[t] = "clear" /\ dg_notify' = dg_notify
    BY <1>t, <1>2 DEF LeaveClear, Types, Frame
  <2>2. \A u \in Thread \ {t} : Responsible(u)' <=> Responsible(u)
    BY <1>t, <1>2 DEF LeaveClear, Types, Goto, Responsible
  <2>3. ~Responsible(t)
    BY <2>1 DEF Responsible
  <2>4. CASE old = Cleared(old) /\ Goto(t, "capture") /\ UNCHANGED <<dg_state, frame>>
    <3>1. ~old.notifs
      BY <2>1, <2>4 DEF Cleared, Word
    <3>2. ~Responsible(t)'
      BY <1>t, <2>4, <3>1 DEF Responsible, Goto, Types
    <3>3. QED
      BY <1>k, <2>1, <2>2, <2>3, <2>4, <3>2
  <2>5. CASE dg_state = old /\ dg_state' = Cleared(old) /\ Goto(t, "capture") /\ UNCHANGED frame
    <3>1. ~dg_state'.notifs
      BY <2>1, <2>5 DEF Cleared, Word
    <3>2. Responsible(t)' <=> dg_state.notifs
      BY <1>t, <2>5 DEF Responsible, Goto, Types
    <3>3. QED
      BY <2>1, <2>2, <2>3, <3>1, <3>2 DEF OneReader
  <2>6. CASE frame' = [frame EXCEPT ![t].old = dg_state] /\ UNCHANGED <<dg_state, pc>>
    <3>1. ~Responsible(t)'
      BY <2>1, <2>6 DEF Responsible
    <3>2. QED
      BY <1>k, <2>1, <2>2, <2>3, <2>6, <3>1
  <2>7. QED
    BY <1>2, <2>4, <2>5, <2>6 DEF LeaveClear
<1>3. ASSUME NEW t \in Thread, WakeCapture(t) PROVE OneReader'
  <2>1. \A u \in Thread \ {t} : Responsible(u)' <=> Responsible(u)
    BY <1>t, <1>3 DEF WakeCapture, Types, Goto, Responsible
  <2>2. ~Responsible(t)' /\ dg_state' = dg_state
    BY <1>t, <1>3 DEF WakeCapture, Types, Goto, Responsible
  <2>3. CASE frame[t].old.notifs
    <3>1. Responsible(t) /\ dg_notify' = <<>>
      BY <1>3, <2>3 DEF WakeCapture, Responsible
    <3>2. QED
      BY <2>1, <2>2, <3>1 DEF OneReader
  <2>4. CASE ~frame[t].old.notifs
    <3>1. ~Responsible(t) /\ dg_notify' = dg_notify
      BY <1>3, <2>4 DEF WakeCapture, Responsible
    <3>2. QED
      BY <1>k, <2>1, <2>2, <3>1
  <2>5. QED
    BY <2>3, <2>4
<1>4. ASSUME NEW t \in Thread, WakeSubmit(t) PROVE OneReader'
  <2>1. dg_state'.notifs = dg_state.notifs /\ dg_notify' = dg_notify
    BY <1>t, <1>4 DEF WakeSubmit, Types, Word, Frame, NoFrame, Goto, Return, group, use
  <2>2. \A u \in Thread : Responsible(u)' <=> Responsible(u)
    BY <1>t, <1>c, <1>4 DEF WakeSubmit, Types, Word, Frame, NoFrame, Goto, Return, group, use, Responsible
  <2>3. QED
    BY <1>k, <2>1, <2>2
<1>5. ASSUME NEW t \in Thread, WakeWaiters(t) PROVE OneReader'
  <2>1. dg_state'.notifs = dg_state.notifs /\ dg_notify' = dg_notify
    BY <1>t, <1>5 DEF WakeWaiters, Types, Word, Frame, NoFrame, Goto, Return, group, use
  <2>2. \A u \in Thread : Responsible(u)' <=> Responsible(u)
    BY <1>t, <1>c, <1>5 DEF WakeWaiters, Types, Word, Frame, NoFrame, Goto, Return, group, use, Responsible
  <2>3. QED
    BY <1>k, <2>1, <2>2
<1>6. ASSUME NEW t \in Thread, WakeRelease(t) PROVE OneReader'
  <2>1. dg_state'.notifs = dg_state.notifs /\ dg_notify' = dg_notify
    BY <1>t, <1>6 DEF WakeRelease, Types, Word, Frame, NoFrame, Goto, Return, group, use
  <2>2. \A u \in Thread : Responsible(u)' <=> Responsible(u)
    BY <1>t, <1>c, <1>6 DEF WakeRelease, Types, Word, Frame, NoFrame, Goto, Return, group, use, Responsible
  <2>3. QED
    BY <1>k, <2>1, <2>2
<1>7. ASSUME NEW t \in Thread, EnterRetain(t) PROVE OneReader'
  <2>1. dg_state'.notifs = dg_state.notifs /\ dg_notify' = dg_notify
    BY <1>t, <1>7 DEF EnterRetain, Types, Word, Frame, NoFrame, Goto, Return, group, use
  <2>2. \A u \in Thread : Responsible(u)' <=> Responsible(u)
    BY <1>t, <1>c, <1>7 DEF EnterRetain, Types, Word, Frame, NoFrame, Goto, Return, group, use, Responsible
  <2>3. QED
    BY <1>k, <2>1, <2>2
<1>8. ASSUME NEW t \in Thread, ContinuationAsync(t) PROVE OneReader'
  <2>1. dg_state'.notifs = dg_state.notifs /\ dg_notify' = dg_notify
    BY <1>t, <1>8 DEF ContinuationAsync, Types, Word, Frame, NoFrame, Goto, Return, group, use
  <2>2. \A u \in Thread : Responsible(u)' <=> Responsible(u)
    BY <1>t, <1>c, <1>8 DEF ContinuationAsync, Types, Word, Frame, NoFrame, Goto, Return, group, use,
       Responsible
  <2>3. QED
    BY <1>k, <2>1, <2>2
<1>9. ASSUME NEW t \in Thread, NotifyPush(t) PROVE OneReader'
  <2>1. dg_notify' # <<>> /\ dg_state' = dg_state
    BY <1>t, <1>9 DEF NotifyPush, Types, BlocksKnown, InNotify
  <2>2. \A u \in Thread \ {t} : Responsible(u)' <=> Responsible(u)
    BY <1>t, <1>9 DEF NotifyPush, Types, Goto, Responsible
  <2>3. ~Responsible(t)
    BY <1>9 DEF NotifyPush, Responsible
  <2>4. Responsible(t)' <=> dg_notify = <<>>
    BY <1>t, <1>9 DEF NotifyPush, Types, Frame, Goto, Responsible
  <2>5. QED
    BY <2>1, <2>2, <2>3, <2>4 DEF OneReader
<1>10. ASSUME NEW t \in Thread, NotifyRetain(t) PROVE OneReader'
  <2>1. dg_state'.notifs = dg_state.notifs /\ dg_notify' = dg_notify
    BY <1>t, <1>10 DEF NotifyRetain, Types, Word, Frame, NoFrame, Goto, Return, group, use
  <2>2. \A u \in Thread : Responsible(u)' <=> Responsible(u)
    BY <1>t, <1>c, <1>10 DEF NotifyRetain, Types, Word, Frame, NoFrame, Goto, Return, group, use, Responsible
  <2>3. QED
    BY <1>k, <2>1, <2>2
<1>11. ASSUME NEW t \in Thread, NotifyLink(t) PROVE OneReader'
  <2>1. dg_state'.notifs = dg_state.notifs /\ dg_notify' = dg_notify
    BY <1>t, <1>11 DEF NotifyLink, Types, Word, Frame, NoFrame, Goto, Return, group, use
  <2>2. \A u \in Thread : Responsible(u)' <=> Responsible(u)
    BY <1>t, <1>c, <1>11 DEF NotifyLink, Types, Word, Frame, NoFrame, Goto, Return, group, use, Responsible
  <2>3. QED
    BY <1>k, <2>1, <2>2
<1>12. ASSUME NEW t \in Thread, NotifyFlag(t) PROVE OneReader'
  <2> DEFINE flagged == [dg_state EXCEPT !.notifs = TRUE]
  <2>1. Responsible(t) /\ dg_notify' = dg_notify
    BY <1>t, <1>12 DEF NotifyFlag, BlocksKnown, Responsible
  <2>2. \A u \in Thread \ {t} : Responsible(u)' <=> Responsible(u)
    BY <1>t, <1>12 DEF NotifyFlag, Types, Goto, Return, Responsible
  <2>3. flagged.notifs
    BY <1>t DEF Types, Word
  <2>4. CASE frame' = [frame EXCEPT ![t].old = flagged] /\ Goto(t, "capture") /\ UNCHANGED dg_state
    <3>1. Responsible(t)'
      BY <1>t, <2>3, <2>4 DEF Types, Frame, Goto, Responsible
    <3>2. QED
      BY <1>k, <2>1, <2>2, <2>4, <3>1
  <2>5. CASE dg_state' = flagged /\ Return(t)
    <3>1. ~Responsible(t)'
      BY <1>t, <2>5 DEF Types, Return, Goto, Responsible
    <3>2. QED
      BY <2>1, <2>2, <2>3, <2>5, <3>1 DEF OneReader
  <2>6. QED
    BY <1>12, <2>4, <2>5 DEF NotifyFlag
<1>13. ASSUME NEW t \in Thread, FutexWait(t) \/ WaitAgain(t) PROVE OneReader'
  <2>1. dg_state'.notifs = dg_state.notifs /\ dg_notify' = dg_notify
    BY <1>t, <1>13 DEF FutexWait, WaitAgain, Types, Word, Frame, NoFrame, Goto, Return, group, use
  <2>2. \A u \in Thread : Responsible(u)' <=> Responsible(u)
    BY <1>t, <1>c, <1>13 DEF FutexWait, WaitAgain, Types, Word, Frame, NoFrame, Goto, Return, group,
       use, Responsible
  <2>3. QED
    BY <1>k, <2>1, <2>2
<1>14. ASSUME NEW t \in Thread, WaitReturns0(t) \/ WaitTimesOut(t) PROVE OneReader'
  <2>1. dg_state'.notifs = dg_state.notifs /\ dg_notify' = dg_notify
    BY <1>t, <1>14 DEF WaitReturns0, WaitTimesOut, Types, Word, Frame, NoFrame, Goto, Return, group, use
  <2>2. \A u \in Thread : Responsible(u)' <=> Responsible(u)
    BY <1>t, <1>c, <1>14 DEF WaitReturns0, WaitTimesOut, Types, Word, Frame, NoFrame, Goto, Return,
       group, use, Responsible
  <2>3. QED
    BY <1>k, <2>1, <2>2
<1>15. ASSUME NEW c \in Client, Enter(c) PROVE OneReader'
  <2>1. dg_state'.notifs = dg_state.notifs /\ dg_notify' = dg_notify
    BY <1>t, <1>15 DEF Enter, Types, Word, Frame, NoFrame, Goto, Return, group, use
  <2>2. \A u \in Thread : Responsible(u)' <=> Responsible(u)
    BY <1>t, <1>c, <1>15 DEF Enter, Types, Word, Frame, NoFrame, Goto, Return, group, use, Responsible
  <2>3. QED
    BY <1>k, <2>1, <2>2
<1>16. ASSUME NEW c \in Client, Notify(c) PROVE OneReader'
  <2>1. dg_state'.notifs = dg_state.notifs /\ dg_notify' = dg_notify
    BY <1>t, <1>16 DEF Notify, Types, Word, Frame, NoFrame, Goto, Return, group, use
  <2>2. \A u \in Thread : Responsible(u)' <=> Responsible(u)
    BY <1>t, <1>c, <1>16 DEF Notify, Types, Word, Frame, NoFrame, Goto, Return, group, use, Responsible
  <2>3. QED
    BY <1>k, <2>1, <2>2
<1>17. ASSUME NEW c \in Client, Release(c) PROVE OneReader'
  <2>1. dg_state'.notifs = dg_state.notifs /\ dg_notify' = dg_notify
    BY <1>t, <1>17 DEF Release, Types, Word, Frame, NoFrame, Goto, Return, group, use
  <2>2. \A u \in Thread : Responsible(u)' <=> Responsible(u)
    BY <1>t, <1>c, <1>17 DEF Release, Types, Word, Frame, NoFrame, Goto, Return, group, use, Responsible
  <2>3. QED
    BY <1>k, <2>1, <2>2
<1>18. ASSUME NEW c \in Client, FutexTimeout(c) \/ FutexInterrupted(c) PROVE OneReader'
  <2>1. dg_state'.notifs = dg_state.notifs /\ dg_notify' = dg_notify
    BY <1>t, <1>18 DEF FutexTimeout, FutexInterrupted, Types, Word, Frame, NoFrame, Goto, Return, group, use
  <2>2. \A u \in Thread : Responsible(u)' <=> Responsible(u)
    BY <1>t, <1>c, <1>18 DEF FutexTimeout, FutexInterrupted, Types, Word, Frame, NoFrame, Goto, Return,
       group, use, Responsible
  <2>3. QED
    BY <1>k, <2>1, <2>2
<1>19. ASSUME NEW c \in Client, NEW forever \in BOOLEAN, Wait(c, forever) PROVE OneReader'
  <2>1. dg_state'.notifs = dg_state.notifs /\ dg_notify' = dg_notify
    BY <1>t, <1>19 DEF Wait, Types, Word, Frame, NoFrame, Goto, Return, group, use
  <2>2. \A u \in Thread : Responsible(u)' <=> Responsible(u)
    BY <1>t, <1>c, <1>19 DEF Wait, Types, Word, Frame, NoFrame, Goto, Return, group, use, Responsible
  <2>3. QED
    BY <1>k, <2>1, <2>2
<1>20. CASE UNCHANGED vars
  BY <1>t, <1>20 DEF vars, group, use, OneReader, Responsible
<1>21. QED
  BY <1>1, <1>2, <1>3, <1>4, <1>5, <1>6, <1>7, <1>8, <1>9, <1>10, <1>11, <1>12, <1>13, <1>14,
     <1>15, <1>16, <1>17, <1>18, <1>19, <1>20 DEF Next, Step

\* What the last leave wants to make of a word, and when that differs from the word.
LEMMA ClearedFields ==
  ASSUME NEW s \in Word
  PROVE  /\ Cleared(s).value = s.value /\ Cleared(s).gen = s.gen
         /\ ~Cleared(s).notifs
         /\ Cleared(s).waiters <=> (s.waiters /\ s.value > 0)
         /\ s = Cleared(s) <=> (~s.notifs /\ (s.waiters => s.value > 0))
<1> DEFINE b == s.waiters /\ s.value > 0
<1>1. s = [value |-> s.value, gen |-> s.gen, waiters |-> s.waiters, notifs |-> s.notifs]
      /\ s.waiters \in BOOLEAN /\ s.notifs \in BOOLEAN /\ b \in BOOLEAN
  BY DEF Word
<1>2. Cleared(s) = [s EXCEPT !.notifs = FALSE, !.waiters = b]
  BY DEF Cleared, Word
<1> HIDE DEF b
<1>3. Cleared(s) = [value |-> s.value, gen |-> s.gen, waiters |-> b, notifs |-> FALSE]
  BY <1>1, <1>2
<1>4. /\ Cleared(s).value = s.value /\ Cleared(s).gen = s.gen
      /\ Cleared(s).notifs = FALSE
      /\ Cleared(s).waiters = b
  BY <1>3
<1>5. ASSUME ~s.notifs, s.waiters => s.value > 0 PROVE s = Cleared(s)
  <2>1. s.notifs = FALSE /\ s.waiters = b
    BY <1>1, <1>5 DEF b
  <2>2. QED
    BY <1>1, <1>3, <2>1
<1>6. QED
  BY <1>1, <1>4, <1>5 DEF b

\* Every step leaves the flags of an empty group with a leave that looks at them: the
\* last leave reads the word it left behind, and whoever finds the word changed reads
\* it again.
LEMMA FlagsStep == Structure /\ FlagsHaveReader /\ [Next]_vars => FlagsHaveReader'
<1> SUFFICES ASSUME Structure /\ FlagsHaveReader, [Next]_vars PROVE FlagsHaveReader'
  OBVIOUS
<1>t. Types /\ Roles /\ BlocksKnown
  BY DEF Structure
<1>c. Client \subseteq Thread /\ Worker \subseteq Thread /\ Client \cap Worker = {}
  BY GroupAssumption DEF Thread
<1> DEFINE Duty(w) == pc[w] = "clear" /\ frame[w].old # Cleared(frame[w].old)
<1>k. ASSUME \A w \in Worker : Duty(w) => Duty(w)', dg_state' = dg_state
      PROVE  FlagsHaveReader'
  BY <1>k DEF FlagsHaveReader
<1>z. \A s \in Word : s.value = 0 /\ (s.waiters \/ s.notifs) => s # Cleared(s)
  <2> TAKE s \in Word
  <2>1. s.value = 0 => ~(s.value > 0)
    OBVIOUS
  <2>2. QED
    BY <2>1, ClearedFields, Zenon
<1>v. dg_state.value \in Nat /\ dg_state' \in Word
  BY <1>t, TypesStep DEF Types, Word
<1>1. ASSUME NEW t \in Thread, LeaveAdd(t) PROVE FlagsHaveReader'
  <2>1. t \in Worker /\ pc[t] = "block"
    BY <1>t, <1>1 DEF LeaveAdd, Roles, ClientPC, InNotify, InWait, InWake, Thread
  <2>2. dg_state.value >= 1 /\ dg_state'.value = dg_state.value - 1
    <3>1. t \in Entering
      BY <2>1 DEF Entering
    <3>2. Cardinality(Entering) >= 1
      BY <3>1, ThreadsFinite, OneLess DEF Entering
    <3>3. QED
      BY <1>t, <1>1, <3>2 DEF LeaveAdd, Types, Word, Structure, Counted
  <2>3. CASE dg_state.value = 1
    <3>1. pc'[t] = "clear" /\ frame'[t].old = dg_state'
      BY <1>t, <1>1, <2>3 DEF LeaveAdd, Types, Frame, Goto
    <3>2. QED
      BY <1>z, <1>v, <2>1, <3>1 DEF FlagsHaveReader
  <2>4. CASE dg_state.value # 1
    BY <1>v, <2>2, <2>4 DEF FlagsHaveReader
  <2>5. QED
    BY <2>3, <2>4
<1>2. ASSUME NEW t \in Thread, LeaveClear(t) PROVE FlagsHaveReader'
  <2> DEFINE old == frame[t].old
  <2>1. t \in Worker /\ pc[t] = "clear" /\ old \in Word
    BY <1>t, <1>2 DEF LeaveClear, Roles, ClientPC, InNotify, InWait, InWake, Thread, Types, Frame
  <2>2. \A w \in Worker \ {t} : Duty(w) => Duty(w)'
    BY <1>t, <1>c, <1>2 DEF LeaveClear, Types, Goto
  <2>3. CASE old = Cleared(old) /\ Goto(t, "capture") /\ UNCHANGED <<dg_state, frame>>
    BY <1>k, <2>2, <2>3
  <2>4. CASE dg_state = old /\ dg_state' = Cleared(old) /\ Goto(t, "capture") /\ UNCHANGED frame
    <3>1. dg_state'.value = 0 => ~dg_state'.waiters /\ ~dg_state'.notifs
      <4>1. /\ dg_state'.value = old.value /\ ~dg_state'.notifs
            /\ dg_state'.waiters => old.value > 0
        BY <2>1, <2>4, ClearedFields, Zenon
      <4>2. QED
        BY <2>1, <4>1 DEF Word
    <3>2. QED
      BY <3>1 DEF FlagsHaveReader
  <2>5. CASE frame' = [frame EXCEPT ![t].old = dg_state] /\ UNCHANGED <<dg_state, pc>>
    <3>1. frame'[t].old = dg_state /\ dg_state \in Word
      BY <1>t, <2>5 DEF Types, Frame
    <3>2. QED
      BY <1>z, <2>1, <2>5, <3>1 DEF FlagsHaveReader
  <2>6. QED
    BY <1>2, <2>3, <2>4, <2>5 DEF LeaveClear
<1>3. ASSUME NEW t \in Thread, NotifyFlag(t) PROVE FlagsHaveReader'
  <2>1. \A w \in Worker : Duty(w) => Duty(w)'
    BY <1>t, <1>c, <1>3 DEF NotifyFlag, Types, Goto, Return
  <2>2. CASE dg_state' = dg_state
    BY <1>k, <2>1, <2>2
  <2>3. CASE ~(dg_state.value = 0 /\ ~dg_state.waiters /\ ~dg_state.notifs)
             /\ dg_state' = [dg_state EXCEPT !.notifs = TRUE]
    <3>1. dg_state'.value = dg_state.value
      BY <1>t, <2>3 DEF Types, Word
    <3>2. QED
      BY <2>1, <2>3, <3>1 DEF FlagsHaveReader
  <2>4. QED
    BY <1>3, <2>2, <2>3 DEF NotifyFlag
<1>4. ASSUME NEW t \in Thread, WakeCapture(t) PROVE FlagsHaveReader'
  <2>1. dg_state' = dg_state /\ \A w \in Worker : Duty(w) => Duty(w)'
    BY <1>t, <1>c, <1>4 DEF WakeCapture, Types, Goto, Return, group, use
  <2>2. QED
    BY <1>k, <2>1
<1>5. ASSUME NEW t \in Thread, WakeSubmit(t) PROVE FlagsHaveReader'
  <2>1. dg_state' = dg_state /\ \A w \in Worker : Duty(w) => Duty(w)'
    BY <1>t, <1>c, <1>5 DEF WakeSubmit, Types, Goto, Return, group, use
  <2>2. QED
    BY <1>k, <2>1
<1>6. ASSUME NEW t \in Thread, WakeWaiters(t) PROVE FlagsHaveReader'
  <2>1. dg_state' = dg_state /\ \A w \in Worker : Duty(w) => Duty(w)'
    BY <1>t, <1>c, <1>6 DEF WakeWaiters, Types, Goto, Return, group, use
  <2>2. QED
    BY <1>k, <2>1
<1>7. ASSUME NEW t \in Thread, WakeRelease(t) PROVE FlagsHaveReader'
  <2>1. dg_state' = dg_state /\ \A w \in Worker : Duty(w) => Duty(w)'
    BY <1>t, <1>c, <1>7 DEF WakeRelease, Types, Goto, Return, group, use
  <2>2. QED
    BY <1>k, <2>1
<1>8. ASSUME NEW t \in Thread, EnterRetain(t) PROVE FlagsHaveReader'
  <2>1. dg_state' = dg_state /\ \A w \in Worker : Duty(w) => Duty(w)'
    BY <1>t, <1>c, <1>8 DEF EnterRetain, Types, Goto, Return, group, use
  <2>2. QED
    BY <1>k, <2>1
<1>9. ASSUME NEW t \in Thread, ContinuationAsync(t) PROVE FlagsHaveReader'
  <2>1. dg_state' = dg_state /\ \A w \in Worker : Duty(w) => Duty(w)'
    BY <1>t, <1>c, <1>9 DEF ContinuationAsync, Types, Goto, Return, group, use
  <2>2. QED
    BY <1>k, <2>1
<1>10. ASSUME NEW t \in Thread, NotifyPush(t) PROVE FlagsHaveReader'
  <2>1. dg_state' = dg_state /\ \A w \in Worker : Duty(w) => Duty(w)'
    BY <1>t, <1>c, <1>10 DEF NotifyPush, Types, Goto, Return, group, use
  <2>2. QED
    BY <1>k, <2>1
<1>11. ASSUME NEW t \in Thread, NotifyRetain(t) PROVE FlagsHaveReader'
  <2>1. dg_state' = dg_state /\ \A w \in Worker : Duty(w) => Duty(w)'
    BY <1>t, <1>c, <1>11 DEF NotifyRetain, Types, Goto, Return, group, use
  <2>2. QED
    BY <1>k, <2>1
<1>12. ASSUME NEW t \in Thread, NotifyLink(t) PROVE FlagsHaveReader'
  <2>1. dg_state' = dg_state /\ \A w \in Worker : Duty(w) => Duty(w)'
    BY <1>t, <1>c, <1>12 DEF NotifyLink, Types, Goto, Return, group, use
  <2>2. QED
    BY <1>k, <2>1
<1>13. ASSUME NEW t \in Thread, FutexWait(t) \/ WaitReturns0(t) \/ WaitTimesOut(t) \/ WaitAgain(t) PROVE FlagsHaveReader'
  <2>1. dg_state' = dg_state /\ \A w \in Worker : Duty(w) => Duty(w)'
    BY <1>t, <1>c, <1>13 DEF FutexWait, WaitReturns0, WaitTimesOut, WaitAgain, Types, Goto, Return, group, use
  <2>2. QED
    BY <1>k, <2>1
<1>14. ASSUME NEW c \in Client, Enter(c) PROVE FlagsHaveReader'
  <2>1. dg_state'.value = dg_state.value + 1
    BY <1>t, <1>14 DEF Enter, Types, Word
  <2>2. QED
    BY <1>v, <2>1 DEF FlagsHaveReader
<1>15. ASSUME NEW c \in Client, NEW forever \in BOOLEAN, Wait(c, forever) PROVE FlagsHaveReader'
  <2>1. dg_state'.value = dg_state.value /\ dg_state.value > 0
    BY <1>t, <1>15 DEF Wait, Types, Word
  <2>2. QED
    BY <1>v, <2>1 DEF FlagsHaveReader
<1>16. ASSUME NEW c \in Client, Notify(c) PROVE FlagsHaveReader'
  <2>1. dg_state' = dg_state /\ \A w \in Worker : Duty(w) => Duty(w)'
    BY <1>t, <1>c, <1>16 DEF Notify, Types, Goto, Return, group, use
  <2>2. QED
    BY <1>k, <2>1
<1>17. ASSUME NEW c \in Client, Release(c) PROVE FlagsHaveReader'
  <2>1. dg_state' = dg_state /\ \A w \in Worker : Duty(w) => Duty(w)'
    BY <1>t, <1>c, <1>17 DEF Release, Types, Goto, Return, group, use
  <2>2. QED
    BY <1>k, <2>1
<1>18. ASSUME NEW c \in Client, FutexTimeout(c) \/ FutexInterrupted(c) PROVE FlagsHaveReader'
  <2>1. dg_state' = dg_state /\ \A w \in Worker : Duty(w) => Duty(w)'
    BY <1>t, <1>c, <1>18 DEF FutexTimeout, FutexInterrupted, Types, Goto, Return, group, use
  <2>2. QED
    BY <1>k, <2>1
<1>19. CASE UNCHANGED vars
  BY <1>t, <1>19 DEF vars, group, use, FlagsHaveReader
<1>20. QED
  BY <1>1, <1>2, <1>3, <1>4, <1>5, <1>6, <1>7, <1>8, <1>9, <1>10, <1>11, <1>12, <1>13, <1>14,
     <1>15, <1>16, <1>17, <1>18, <1>19 DEF Next, Step

-----------------------------------------------------------------------------
(* The threads in dispatch_group_wait                                        *)

\* Every step keeps what they rely on.  The delicate one is the compare-and-swap of a
\* leave that clears the flag another leave was still going to read: it takes the flag
\* with it, and wakes in the other's place.
LEMMA WaitsStep == Structure /\ WaitsKept /\ [Next]_vars => WaitsKept'
<1> SUFFICES ASSUME Structure /\ WaitsKept, [Next]_vars PROVE WaitsKept'
  OBVIOUS
<1>t. Types /\ Roles /\ BlocksKnown
  BY DEF Structure
<1>c. Client \subseteq Thread /\ Worker \subseteq Thread /\ Client \cap Worker = {}
  BY GroupAssumption DEF Thread
<1>v. /\ dg_state.value \in Nat /\ dg_state.gen \in Nat /\ dg_state \in Word
      /\ \A u \in Thread : frame[u].old \in Word /\ frame[u].old.gen \in Nat
  BY <1>t DEF Types, Word, Frame
<1> DEFINE Wakes(w) == /\ frame[w].old.waiters
                       /\ \/ pc[w] \in {"capture", "submit", "wake"}
                          \/ pc[w] = "clear" /\ dg_state.waiters
           Kept(c) == /\ frame[c].old.gen <= dg_state.gen
                      /\ frame[c].old.gen = dg_state.gen => dg_state.waiters /\ dg_state.value > 0
                      /\ frame[c].old.gen # dg_state.gen <=> c \in emptied
                      /\ pc[c] = "asleep" /\ frame[c].old.gen # dg_state.gen =>
                           \E w \in Worker : Wakes(w)
           Same(c) == /\ pc[c] \in InWait /\ frame'[c].old.gen = frame[c].old.gen
                      /\ pc'[c] = "asleep" => pc[c] = "asleep"
<1>d. /\ WaitsKept <=> \A c \in Client : pc[c] \in InWait => Kept(c)
      /\ WaitsKept' <=> \A c \in Client : pc'[c] \in InWait => Kept(c)'
  BY DEF WaitsKept
<1>a. \A c \in Client : pc[c] \in InWait => Kept(c)
  BY <1>d
<1>k. ASSUME \A c \in Client : pc'[c] \in InWait => Same(c),
             \A w \in Worker : Wakes(w) => Wakes(w)',
             dg_state'.value > 0 <=> dg_state.value > 0, dg_state'.gen = dg_state.gen,
             dg_state'.waiters <=> dg_state.waiters, emptied' = emptied
      PROVE  WaitsKept'
  <2>1. ASSUME NEW c \in Client, pc'[c] \in InWait PROVE Kept(c)'
    <3>1. Kept(c) /\ Same(c)
      BY <1>a, <1>k, <2>1
    <3>2. QED
      BY <1>k, <3>1
  <2>2. QED
    BY <1>d, <2>1
<1>1. ASSUME NEW t \in Thread, LeaveAdd(t) PROVE WaitsKept'
  <2>1. t \in Worker /\ pc[t] = "block"
    BY <1>t, <1>1 DEF LeaveAdd, Roles, ClientPC, InNotify, InWait, InWake, Thread
  <2>2. dg_state.value >= 1
    <3>1. t \in Entering
      BY <2>1 DEF Entering
    <3>2. Cardinality(Entering) >= 1
      BY <3>1, ThreadsFinite, OneLess DEF Entering
    <3>3. QED
      BY <3>2 DEF Structure, Counted
  <2>3. \A c \in Client : pc'[c] = pc[c] /\ frame'[c] = frame[c]
    BY <1>t, <1>c, <1>1, <2>1 DEF LeaveAdd, Types, Goto, Return
  <2>4. dg_state'.value = dg_state.value - 1 /\ dg_state'.waiters = dg_state.waiters
    BY <1>v, <1>1 DEF LeaveAdd, Word
  <2>5. \A w \in Worker : Wakes(w) => Wakes(w)'
    <3>1. \A w \in Worker \ {t} : pc'[w] = pc[w] /\ frame'[w] = frame[w]
      BY <1>t, <1>c, <1>1 DEF LeaveAdd, Types, Goto, Return
    <3>2. QED
      BY <2>1, <2>4, <3>1
  <2>6. CASE dg_state.value = 1
    <3>1. /\ dg_state'.gen = dg_state.gen + 1 /\ emptied' = {c \in Client : pc[c] \in InWait}
          /\ pc'[t] = "clear" /\ frame'[t].old = dg_state'
      BY <1>t, <1>v, <1>1, <2>6 DEF LeaveAdd, Types, Word, Frame, Goto
    <3>2. dg_state.waiters => Wakes(t)'
      BY <2>4, <3>1
    <3>3. ASSUME NEW c \in Client, pc[c] \in InWait PROVE Kept(c)'
      <4>1. Kept(c) /\ frame[c].old.gen \in Nat
        BY <1>a, <1>c, <1>v, <3>3
      <4>2. frame'[c].old.gen < dg_state'.gen /\ c \in emptied'
        BY <1>v, <2>3, <3>1, <3>3, <4>1
      <4>3. pc'[c] = "asleep" => \E w \in Worker : Wakes(w)'
        BY <2>1, <2>3, <2>5, <3>2, <4>1
      <4>4. QED
        BY <1>v, <2>3, <3>1, <4>1, <4>2, <4>3
    <3>4. QED
      BY <1>d, <2>3, <3>3
  <2>7. CASE dg_state.value # 1
    <3>1. dg_state'.gen = dg_state.gen /\ emptied' = emptied
      BY <1>v, <1>1, <2>7 DEF LeaveAdd, Word
    <3>2. dg_state'.value > 0 <=> dg_state.value > 0
      BY <1>v, <2>2, <2>4, <2>7
    <3>3. QED
      BY <1>k, <2>3, <2>4, <2>5, <3>1, <3>2
  <2>8. QED
    BY <2>6, <2>7
<1>2. ASSUME NEW t \in Thread, LeaveClear(t) PROVE WaitsKept'
  <2> DEFINE old == frame[t].old
  <2>1. t \in Worker /\ pc[t] = "clear" /\ old \in Word /\ emptied' = emptied
    BY <1>t, <1>2 DEF LeaveClear, Roles, ClientPC, InNotify, InWait, InWake, Thread, Types, Frame
  <2>2. \A c \in Client : pc'[c] = pc[c] /\ frame'[c] = frame[c]
    BY <1>t, <1>c, <1>2, <2>1 DEF LeaveClear, Types, Goto
  <2>3. \A w \in Worker \ {t} : pc'[w] = pc[w] /\ frame'[w] = frame[w]
    BY <1>t, <1>c, <1>2 DEF LeaveClear, Types, Goto
  <2>4. CASE Goto(t, "capture") /\ UNCHANGED <<dg_state, frame>>
    <3>1. pc'[t] = "capture"
      BY <1>t, <2>4 DEF Types, Goto
    <3>2. \A w \in Worker : Wakes(w) => Wakes(w)'
      BY <2>3, <2>4, <3>1
    <3>3. QED
      BY <1>k, <2>1, <2>2, <2>4, <3>2
  <2>5. CASE dg_state = old /\ dg_state' = Cleared(old) /\ Goto(t, "capture") /\ UNCHANGED frame
    <3>1. /\ dg_state'.value = dg_state.value /\ dg_state'.gen = dg_state.gen
          /\ dg_state'.waiters <=> (dg_state.waiters /\ dg_state.value > 0)
      BY <1>v, <2>5, ClearedFields, Zenon
    <3>2. pc'[t] = "capture" /\ frame'[t].old = old
      BY <1>t, <2>5 DEF Types, Goto
    <3>3. ASSUME NEW w \in Worker, Wakes(w) PROVE \E x \in Worker : Wakes(x)'
      <4>1. CASE w = t \/ dg_state'.waiters \/ pc[w] # "clear"
        BY <2>3, <2>5, <3>1, <3>2, <3>3, <4>1
      <4>2. CASE w # t /\ ~dg_state'.waiters /\ pc[w] = "clear"
        <5>1. Wakes(t)'
          BY <2>5, <3>2, <3>3, <4>2
        <5>2. QED
          BY <2>1, <5>1
      <4>3. QED
        BY <4>1, <4>2
    <3>4. ASSUME NEW c \in Client, pc'[c] \in InWait PROVE Kept(c)'
      <4>1. Kept(c)
        BY <1>a, <2>2, <3>4
      <4>2. QED
        BY <2>1, <2>2, <3>1, <3>3, <4>1
    <3>5. QED
      BY <1>d, <3>4
  <2>6. CASE frame' = [frame EXCEPT ![t].old = dg_state] /\ UNCHANGED <<dg_state, pc>>
    <3>1. frame'[t].old = dg_state
      BY <1>t, <2>6 DEF Types, Frame
    <3>2. \A w \in Worker : Wakes(w) => Wakes(w)'
      BY <2>1, <2>3, <2>6, <3>1
    <3>3. QED
      BY <1>k, <2>1, <2>2, <2>6, <3>2
  <2>7. QED
    BY <1>2, <2>4, <2>5, <2>6 DEF LeaveClear
<1>3. ASSUME NEW t \in Thread, WakeCapture(t) PROVE WaitsKept'
  <2>1. dg_state' = dg_state /\ emptied' = emptied
    BY <1>3 DEF WakeCapture, Types, Goto, Return, group, use
  <2>2. \A c \in Client : pc'[c] \in InWait => Same(c)
    BY <1>t, <1>c, <1>3 DEF WakeCapture, Types, Goto, Return, group, use, Frame, InWait
  <2>3. \A w \in Worker : Wakes(w) => Wakes(w)'
    <3>1. frame' = frame \/ frame' = [frame EXCEPT ![t].snapshot = dg_notify]
      BY <1>3 DEF WakeCapture
    <3>2. \A w \in Worker : frame'[w].old = frame[w].old
      <4>1. \A w \in Thread : frame[w] \in Frame
        BY <1>t DEF Types
      <4>2. ASSUME NEW w \in Worker, frame' = [frame EXCEPT ![t].snapshot = dg_notify]
            PROVE  frame'[w].old = frame[w].old
        BY <1>t, <1>c, <4>1, <4>2 DEF Types, Frame
      <4>3. QED
        BY <3>1, <4>2
    <3>3. QED
      BY <1>t, <1>c, <1>3, <2>1, <3>2 DEF WakeCapture, Types, Goto
  <2>4. QED
    BY <1>k, <2>1, <2>2, <2>3
<1>4. ASSUME NEW t \in Thread, WakeSubmit(t) PROVE WaitsKept'
  <2>1. dg_state' = dg_state /\ emptied' = emptied
    BY <1>4 DEF WakeSubmit, Types, Goto, Return, group, use
  <2>2. \A c \in Client : pc'[c] \in InWait => Same(c)
    BY <1>t, <1>c, <1>4 DEF WakeSubmit, Types, Goto, Return, group, use, Frame, InWait
  <2>3. \A w \in Worker : Wakes(w) => Wakes(w)'
    BY <1>t, <1>c, <1>4 DEF WakeSubmit, Types, Goto, Return, group, use, Frame
  <2>4. QED
    BY <1>k, <2>1, <2>2, <2>3
<1>5. ASSUME NEW t \in Thread, WakeWaiters(t) PROVE WaitsKept'
  <2>1. dg_state' = dg_state /\ emptied' = emptied /\ frame' = frame
    BY <1>5 DEF WakeWaiters, group
  <2>2. \A c \in Client : pc'[c] \in InWait => Same(c)
    BY <1>t, <1>c, <1>5, <2>1 DEF WakeWaiters, InWait
  <2>3. CASE frame[t].old.waiters
    <3>1. \A c \in Client : pc'[c] # "asleep"
      BY <1>c, <1>5, <2>3 DEF WakeWaiters
    <3>2. ASSUME NEW c \in Client, pc'[c] \in InWait PROVE Kept(c)'
      <4>1. Kept(c)
        BY <1>a, <2>2, <3>2
      <4>2. QED
        BY <2>1, <3>1, <4>1
    <3>3. QED
      BY <1>d, <3>2
  <2>4. CASE ~frame[t].old.waiters
    <3>1. \A w \in Worker : Wakes(w) => Wakes(w)'
      BY <1>c, <1>5, <2>1, <2>4 DEF WakeWaiters
    <3>2. QED
      BY <1>k, <2>1, <2>2, <3>1
  <2>5. QED
    BY <2>3, <2>4
<1>6. ASSUME NEW t \in Thread, WakeRelease(t) PROVE WaitsKept'
  <2>1. dg_state' = dg_state /\ emptied' = emptied
    BY <1>6 DEF WakeRelease, Types, Goto, Return, group, use
  <2>2. \A c \in Client : pc'[c] \in InWait => Same(c)
    BY <1>t, <1>c, <1>6 DEF WakeRelease, Types, Goto, Return, group, use, Frame, InWait
  <2>3. \A w \in Worker : Wakes(w) => Wakes(w)'
    BY <1>t, <1>c, <1>6 DEF WakeRelease, Types, Goto, Return, group, use, Frame
  <2>4. QED
    BY <1>k, <2>1, <2>2, <2>3
<1>7. ASSUME NEW t \in Thread, EnterRetain(t) PROVE WaitsKept'
  <2>1. dg_state' = dg_state /\ emptied' = emptied
    BY <1>7 DEF EnterRetain, Types, Goto, Return, group, use
  <2>2. \A c \in Client : pc'[c] \in InWait => Same(c)
    BY <1>t, <1>c, <1>7 DEF EnterRetain, Types, Goto, Return, group, use, Frame, InWait
  <2>3. \A w \in Worker : Wakes(w) => Wakes(w)'
    BY <1>t, <1>c, <1>7 DEF EnterRetain, Types, Goto, Return, group, use, Frame
  <2>4. QED
    BY <1>k, <2>1, <2>2, <2>3
<1>8. ASSUME NEW t \in Thread, ContinuationAsync(t) PROVE WaitsKept'
  <2>1. dg_state' = dg_state /\ emptied' = emptied
    BY <1>8 DEF ContinuationAsync, Types, Goto, Return, group, use
  <2>2. \A c \in Client : pc'[c] \in InWait => Same(c)
    BY <1>t, <1>c, <1>8 DEF ContinuationAsync, Types, Goto, Return, group, use, Frame, InWait
  <2>3. \A w \in Worker : Wakes(w) => Wakes(w)'
    BY <1>t, <1>c, <1>8 DEF ContinuationAsync, Types, Goto, Return, group, use, Frame
  <2>4. QED
    BY <1>k, <2>1, <2>2, <2>3
<1>9. ASSUME NEW t \in Thread, NotifyPush(t) PROVE WaitsKept'
  <2>1. dg_state' = dg_state /\ emptied' = emptied
    BY <1>9 DEF NotifyPush, Types, Goto, Return, group, use
  <2>2. \A c \in Client : pc'[c] \in InWait => Same(c)
    BY <1>t, <1>c, <1>9 DEF NotifyPush, Types, Goto, Return, group, use, Frame, InWait
  <2>3. \A w \in Worker : Wakes(w) => Wakes(w)'
    BY <1>t, <1>c, <1>9 DEF NotifyPush, Types, Goto, Return, group, use, Frame
  <2>4. QED
    BY <1>k, <2>1, <2>2, <2>3
<1>10. ASSUME NEW t \in Thread, NotifyRetain(t) PROVE WaitsKept'
  <2>1. dg_state' = dg_state /\ emptied' = emptied
    BY <1>10 DEF NotifyRetain, Types, Goto, Return, group, use
  <2>2. \A c \in Client : pc'[c] \in InWait => Same(c)
    BY <1>t, <1>c, <1>10 DEF NotifyRetain, Types, Goto, Return, group, use, Frame, InWait
  <2>3. \A w \in Worker : Wakes(w) => Wakes(w)'
    BY <1>t, <1>c, <1>10 DEF NotifyRetain, Types, Goto, Return, group, use, Frame
  <2>4. QED
    BY <1>k, <2>1, <2>2, <2>3
<1>11. ASSUME NEW t \in Thread, NotifyLink(t) PROVE WaitsKept'
  <2>1. dg_state' = dg_state /\ emptied' = emptied
    BY <1>11 DEF NotifyLink, Types, Goto, Return, group, use
  <2>2. \A c \in Client : pc'[c] \in InWait => Same(c)
    BY <1>t, <1>c, <1>11 DEF NotifyLink, Types, Goto, Return, group, use, Frame, InWait
  <2>3. \A w \in Worker : Wakes(w) => Wakes(w)'
    BY <1>t, <1>c, <1>11 DEF NotifyLink, Types, Goto, Return, group, use, Frame
  <2>4. QED
    BY <1>k, <2>1, <2>2, <2>3
<1>12. ASSUME NEW t \in Thread, NotifyFlag(t) PROVE WaitsKept'
  <2>1. dg_state' = dg_state \/ dg_state' = [dg_state EXCEPT !.notifs = TRUE]
    BY <1>12 DEF NotifyFlag
  <2>2. /\ dg_state'.value = dg_state.value /\ dg_state'.gen = dg_state.gen
        /\ dg_state'.waiters = dg_state.waiters /\ emptied' = emptied
    BY <1>v, <1>12, <2>1 DEF NotifyFlag, Word
  <2>3. \A c \in Client : pc'[c] \in InWait => Same(c)
    BY <1>t, <1>c, <1>12 DEF NotifyFlag, Types, Goto, Return, InWait
  <2>4. \A w \in Worker : Wakes(w) => Wakes(w)'
    BY <1>t, <1>c, <1>12, <2>2 DEF NotifyFlag, Types, Goto, Return
  <2>5. QED
    BY <1>k, <2>2, <2>3, <2>4
<1>13. ASSUME NEW t \in Thread, FutexWait(t) PROVE WaitsKept'
  <2>1. dg_state' = dg_state /\ emptied' = emptied /\ frame' = frame
    BY <1>13 DEF FutexWait, group
  <2>2. \A w \in Worker : Wakes(w) => Wakes(w)'
    BY <1>t, <1>c, <1>13, <2>1 DEF FutexWait, Types, Goto
  <2>3. ASSUME NEW c \in Client, pc'[c] \in InWait PROVE Kept(c)'
    <3>1. pc[c] \in InWait
      BY <1>t, <1>c, <1>13, <2>3 DEF FutexWait, Types, Goto, InWait
    <3>2. Kept(c)
      BY <1>a, <3>1
    <3>3. pc'[c] = "asleep" => pc[c] = "asleep" \/ frame[c].old.gen = dg_state.gen
      BY <1>t, <1>c, <1>13 DEF FutexWait, Types, Goto
    <3>4. QED
      BY <2>1, <2>2, <3>2, <3>3
  <2>4. QED
    BY <1>d, <2>3
<1>14. ASSUME NEW t \in Thread, WaitReturns0(t) \/ WaitTimesOut(t) PROVE WaitsKept'
  <2>1. dg_state' = dg_state /\ emptied' = emptied
    BY <1>14 DEF WaitReturns0, WaitTimesOut, Types, Goto, Return, group, use
  <2>2. \A c \in Client : pc'[c] \in InWait => Same(c)
    BY <1>t, <1>c, <1>14 DEF WaitReturns0, WaitTimesOut, Types, Goto, Return, group, use, Frame, InWait
  <2>3. \A w \in Worker : Wakes(w) => Wakes(w)'
    BY <1>t, <1>c, <1>14 DEF WaitReturns0, WaitTimesOut, Types, Goto, Return, group, use, Frame
  <2>4. QED
    BY <1>k, <2>1, <2>2, <2>3
<1>15. ASSUME NEW t \in Thread, WaitAgain(t) PROVE WaitsKept'
  <2>1. dg_state' = dg_state /\ emptied' = emptied
    BY <1>15 DEF WaitAgain, Types, Goto, Return, group, use
  <2>2. \A c \in Client : pc'[c] \in InWait => Same(c)
    BY <1>t, <1>c, <1>15 DEF WaitAgain, Types, Goto, Return, group, use, Frame, InWait
  <2>3. \A w \in Worker : Wakes(w) => Wakes(w)'
    BY <1>t, <1>c, <1>15 DEF WaitAgain, Types, Goto, Return, group, use, Frame
  <2>4. QED
    BY <1>k, <2>1, <2>2, <2>3
<1>16. ASSUME NEW c \in Client, Enter(c) PROVE WaitsKept'
  <2>1. /\ dg_state'.value = dg_state.value + 1 /\ dg_state'.gen = dg_state.gen
        /\ dg_state'.waiters = dg_state.waiters /\ emptied' = emptied /\ frame' = frame
    BY <1>v, <1>16 DEF Enter, Word
  <2>2. \A w \in Worker : Wakes(w) => Wakes(w)'
    BY <1>t, <1>c, <1>16, <2>1 DEF Enter, Types, Goto
  <2>3. ASSUME NEW u \in Client, pc'[u] \in InWait PROVE Kept(u)'
    <3>1. pc[u] \in InWait /\ pc'[u] = pc[u]
      BY <1>t, <1>c, <1>16, <2>3 DEF Enter, Types, Goto, InWait
    <3>2. Kept(u)
      BY <1>a, <3>1
    <3>3. QED
      BY <1>v, <2>1, <2>2, <3>1, <3>2
  <2>4. QED
    BY <1>d, <2>3
<1>17. ASSUME NEW c \in Client, NEW forever \in BOOLEAN, Wait(c, forever) PROVE WaitsKept'
  <2>1. /\ dg_state'.value = dg_state.value /\ dg_state'.gen = dg_state.gen
        /\ dg_state'.waiters /\ dg_state.value > 0
    BY <1>v, <1>17 DEF Wait, Word
  <2>2. \A u \in Thread \ {c} : pc'[u] = pc[u] /\ frame'[u] = frame[u] /\ (u \in emptied <=> u \in emptied')
    BY <1>t, <1>c, <1>17 DEF Wait, Types, Goto
  <2>3. frame'[c].old = dg_state' /\ pc'[c] = "futex" /\ c \notin emptied'
    BY <1>t, <1>c, <1>17 DEF Wait, Types, Frame, Goto
  <2>4. \A w \in Worker : Wakes(w) => Wakes(w)'
    BY <1>c, <2>1, <2>2
  <2>5. ASSUME NEW u \in Client, pc'[u] \in InWait PROVE Kept(u)'
    <3>1. CASE u = c
      BY <1>v, <2>1, <2>3, <3>1
    <3>2. CASE u # c
      <4>1. Kept(u) /\ pc'[u] = pc[u] /\ frame'[u] = frame[u] /\ (u \in emptied <=> u \in emptied')
        BY <1>a, <1>c, <2>2, <2>5, <3>2
      <4>2. QED
        BY <2>1, <2>4, <4>1
    <3>3. QED
      BY <3>1, <3>2
  <2>6. QED
    BY <1>d, <2>5
<1>18. ASSUME NEW c \in Client, Notify(c) PROVE WaitsKept'
  <2>1. dg_state' = dg_state /\ emptied' = emptied
    BY <1>18 DEF Notify, Types, Goto, Return, group, use
  <2>2. \A d \in Client : pc'[d] \in InWait => Same(d)
    BY <1>t, <1>c, <1>18 DEF Notify, Types, Goto, Return, group, use, Frame, InWait
  <2>3. \A w \in Worker : Wakes(w) => Wakes(w)'
    BY <1>t, <1>c, <1>18 DEF Notify, Types, Goto, Return, group, use, Frame
  <2>4. QED
    BY <1>k, <2>1, <2>2, <2>3
<1>19. ASSUME NEW c \in Client, Release(c) PROVE WaitsKept'
  <2>1. dg_state' = dg_state /\ emptied' = emptied
    BY <1>19 DEF Release, Types, Goto, Return, group, use
  <2>2. \A d \in Client : pc'[d] \in InWait => Same(d)
    BY <1>t, <1>c, <1>19 DEF Release, Types, Goto, Return, group, use, Frame, InWait
  <2>3. \A w \in Worker : Wakes(w) => Wakes(w)'
    BY <1>t, <1>c, <1>19 DEF Release, Types, Goto, Return, group, use, Frame
  <2>4. QED
    BY <1>k, <2>1, <2>2, <2>3
<1>20. ASSUME NEW c \in Client, FutexTimeout(c) \/ FutexInterrupted(c) PROVE WaitsKept'
  <2>1. dg_state' = dg_state /\ emptied' = emptied
    BY <1>20 DEF FutexTimeout, FutexInterrupted, Types, Goto, Return, group, use
  <2>2. \A d \in Client : pc'[d] \in InWait => Same(d)
    BY <1>t, <1>c, <1>20 DEF FutexTimeout, FutexInterrupted, Types, Goto, Return, group, use, Frame, InWait
  <2>3. \A w \in Worker : Wakes(w) => Wakes(w)'
    BY <1>t, <1>c, <1>20 DEF FutexTimeout, FutexInterrupted, Types, Goto, Return, group, use, Frame
  <2>4. QED
    BY <1>k, <2>1, <2>2, <2>3
<1>21. CASE UNCHANGED vars
  BY <1>t, <1>21 DEF vars, group, use, WaitsKept
<1>22. QED
  BY <1>1, <1>2, <1>3, <1>4, <1>5, <1>6, <1>7, <1>8, <1>9, <1>10, <1>11, <1>12, <1>13, <1>14,
     <1>15, <1>16, <1>17, <1>18, <1>19, <1>20, <1>21 DEF Next, Step

-----------------------------------------------------------------------------
(* The references                                                            *)

\* Every step keeps the account.  That only one thread enters an empty group and only
\* one finds the list empty, as OneReader says, makes the retain of either be in the
\* account once it is done.
LEMMA RefsStep == Structure /\ OneReader /\ RefsCounted /\ [Next]_vars => RefsCounted'
<1> SUFFICES ASSUME Structure /\ OneReader /\ RefsCounted, [Next]_vars PROVE RefsCounted'
  OBVIOUS
<1>t. Types /\ Roles /\ BlocksKnown
  BY DEF Structure
<1>c. Client \subseteq Thread /\ Worker \subseteq Thread /\ Client \cap Worker = {}
  BY GroupAssumption DEF Thread
<1>v. dg_state.value \in Nat /\ dg_state \in Word /\ dg_state.value = Cardinality(Entering)
  BY <1>t DEF Types, Word, Structure, Counted
<1>f. /\ IsFiniteSet(holds) /\ IsFiniteSet(Leaving) /\ IsFiniteSet(Carrying) /\ IsFiniteSet(Entering)
      /\ Cardinality(holds) \in Nat /\ Cardinality(Leaving) \in Nat /\ Cardinality(Carrying) \in Nat
      /\ EnterRef \in {0, 1} /\ ListRef \in {0, 1}
  BY <1>t, <1>c, ThreadsFinite DEF Types, Leaving, Carrying, Entering, EnterRef, ListRef
<1>r. /\ refs = Cardinality(holds) + EnterRef + Cardinality(Leaving) + ListRef + Cardinality(Carrying)
      /\ \A u, w \in Thread : pc[u] = "enterRetain" /\ pc[w] = "enterRetain" => u = w
  BY DEF RefsCounted
<1>k. ASSUME refs' = refs, holds' = holds, Leaving' = Leaving, Carrying' = Carrying,
             EnterRef' = EnterRef, ListRef' = ListRef,
             \A u \in Thread : pc'[u] = "enterRetain" => pc[u] = "enterRetain"
      PROVE  RefsCounted'
  BY <1>k, <1>r DEF RefsCounted
<1>1. ASSUME NEW c \in Client, Release(c) PROVE RefsCounted'
  <2>1. c \in holds /\ holds' = holds \ {c} /\ refs' = refs - 1
        /\ UNCHANGED <<dg_state, dg_notify, pc, frame>>
    BY <1>1 DEF Release
  <2>2. Cardinality(holds') = Cardinality(holds) - 1
    BY <1>f, <2>1, OneLess
  <2>3. Leaving' = Leaving /\ Carrying' = Carrying /\ EnterRef' = EnterRef /\ ListRef' = ListRef
    BY <2>1 DEF Leaving, Carrying, EnterRef, ListRef
  <2>4. QED
    BY <1>f, <1>r, <2>1, <2>2, <2>3 DEF RefsCounted
<1>2. ASSUME NEW c \in Client, Enter(c) PROVE RefsCounted'
  <2>1. /\ refs' = refs /\ holds' = holds /\ dg_notify' = dg_notify /\ frame' = frame
        /\ dg_state'.value = dg_state.value + 1
        /\ \A u \in Thread \ {c} : pc'[u] = pc[u]
        /\ pc[c] = "idle" /\ pc'[c] = IF dg_state.value = 0 THEN "enterRetain" ELSE "async"
    BY <1>t, <1>v, <1>c, <1>2 DEF Enter, Types, Word, Goto
  <2>2. Leaving' = Leaving /\ Carrying' = Carrying /\ ListRef' = ListRef
    BY <1>c, <2>1 DEF Leaving, Carrying, ListRef
  <2>3. CASE dg_state.value = 0
    <3>1. Entering = {}
      BY <1>v, <1>f, <2>3, FS_EmptySet
    <3>2. \A u \in Thread : pc'[u] = "enterRetain" <=> u = c
      BY <1>c, <2>1, <2>3, <3>1 DEF Entering
    <3>3. EnterRef' = EnterRef
      BY <1>c, <1>v, <2>1, <2>3, <3>2 DEF EnterRef
    <3>4. QED
      BY <1>r, <2>1, <2>2, <3>2, <3>3 DEF RefsCounted
  <2>4. CASE dg_state.value # 0
    <3>1. EnterRef' = EnterRef
      BY <1>c, <1>v, <2>1, <2>4 DEF EnterRef
    <3>2. QED
      BY <1>k, <2>1, <2>2, <2>4, <3>1
  <2>5. QED
    BY <2>3, <2>4
<1>3. ASSUME NEW t \in Thread, EnterRetain(t) PROVE RefsCounted'
  <2>1. /\ pc[t] = "enterRetain" /\ pc'[t] = "async" /\ \A u \in Thread \ {t} : pc'[u] = pc[u]
        /\ refs' = refs + 1 /\ UNCHANGED <<dg_state, dg_notify, frame, holds>>
    BY <1>t, <1>3 DEF EnterRetain, Types, Goto, use
  <2>2. Leaving' = Leaving /\ Carrying' = Carrying /\ ListRef' = ListRef
    BY <1>c, <2>1 DEF Leaving, Carrying, ListRef, InWake
  <2>3. dg_state.value > 0
    <3>1. t \in Entering
      BY <2>1 DEF Entering
    <3>2. Cardinality(Entering) >= 1
      BY <1>f, <3>1, OneLess
    <3>3. QED
      BY <1>v, <3>2
  <2>4. \A u \in Thread : pc'[u] # "enterRetain"
    BY <1>r, <2>1
  <2>5. EnterRef = 0 /\ EnterRef' = 1
    BY <2>1, <2>3, <2>4 DEF EnterRef
  <2>6. QED
    BY <1>f, <1>r, <2>1, <2>2, <2>4, <2>5 DEF RefsCounted
<1>4. ASSUME NEW t \in Thread, ContinuationAsync(t) PROVE RefsCounted'
  <2>1. /\ refs' = refs /\ holds' = holds
        /\ \A u \in Thread : pc'[u] = "enterRetain" <=> pc[u] = "enterRetain"
        /\ dg_state'.value = dg_state.value /\ dg_notify' = dg_notify
    BY <1>t, <1>c, <1>4 DEF ContinuationAsync, Types, Goto, Return, group, use, Word
  <2>2. EnterRef' = EnterRef
    BY <2>1 DEF EnterRef
  <2>3. ListRef' = ListRef
    BY <1>t, <1>c, <1>4, <2>1 DEF ContinuationAsync, Types, Goto, Return, group, use, ListRef
  <2>4. Leaving' = Leaving
    BY <1>t, <1>c, <1>4 DEF ContinuationAsync, Types, Goto, Return, group, use, Leaving, InWake
  <2>5. Carrying' = Carrying
    BY <1>t, <1>c, <1>4 DEF ContinuationAsync, Types, Goto, Return, group, use, Carrying, Frame
  <2>6. QED
    BY <1>k, <2>1, <2>2, <2>3, <2>4, <2>5
<1>5. ASSUME NEW t \in Thread, LeaveAdd(t) PROVE RefsCounted'
  <2>1. /\ pc[t] = "block" /\ t \in Worker /\ \A u \in Thread \ {t} : pc'[u] = pc[u] /\ frame'[u] = frame[u]
        /\ refs' = refs /\ UNCHANGED <<dg_notify, holds>>
        /\ dg_state'.value = dg_state.value - 1
        /\ pc'[t] = IF dg_state.value = 1 THEN "clear" ELSE "idle"
    <3>1. t \in Worker
      BY <1>t, <1>5 DEF LeaveAdd, Roles, ClientPC, InNotify, InWait, InWake, Thread
    <3>2. QED
      BY <1>t, <1>v, <1>5, <3>1 DEF LeaveAdd, Types, Word, Goto, Return, use
  <2>2. Carrying' = Carrying /\ ListRef' = ListRef
    BY <2>1 DEF Carrying, ListRef
  <2>3. t \in Entering
    BY <1>c, <2>1 DEF Entering
  <2>4. \A u \in Thread : pc'[u] = "enterRetain" <=> pc[u] = "enterRetain"
    BY <2>1
  <2>5. CASE dg_state.value = 1
    <3>1. Entering = {t}
      <4>1. Cardinality(Entering) = 1
        BY <1>v, <2>5
      <4>2. \E x : Entering = {x}
        BY <1>f, <4>1, FS_Singleton
      <4>3. QED
        BY <2>3, <4>2
    <3>2. EnterRef = 1 /\ EnterRef' = 0
      BY <1>v, <2>1, <2>5, <3>1 DEF EnterRef, Entering
    <3>3. t \notin Leaving /\ Leaving' = Leaving \cup {t}
      BY <1>c, <2>1, <2>5 DEF Leaving, InWake
    <3>4. Cardinality(Leaving') = Cardinality(Leaving) + 1
      BY <1>f, <3>3, OneMore
    <3>5. QED
      BY <1>f, <1>r, <2>1, <2>2, <2>4, <3>2, <3>4 DEF RefsCounted
  <2>6. CASE dg_state.value # 1
    <3>1. dg_state.value >= 1
      BY <1>v, <1>f, <2>3, OneLess
    <3>2. EnterRef' = EnterRef
      BY <1>v, <2>1, <2>4, <2>6, <3>1 DEF EnterRef
    <3>3. Leaving' = Leaving
      BY <1>c, <2>1, <2>6 DEF Leaving, InWake
    <3>4. QED
      BY <1>k, <2>1, <2>2, <2>4, <3>2, <3>3
  <2>7. QED
    BY <2>5, <2>6
<1>6. ASSUME NEW t \in Thread, LeaveClear(t) PROVE RefsCounted'
  <2>a. dg_state' = dg_state \/ dg_state' = Cleared(dg_state)
    BY <1>6 DEF LeaveClear
  <2>b. dg_state'.value = dg_state.value
    BY <1>v, <2>a, ClearedFields, Zenon
  <2>1. /\ refs' = refs /\ holds' = holds
        /\ \A u \in Thread : pc'[u] = "enterRetain" <=> pc[u] = "enterRetain"
        /\ dg_state'.value = dg_state.value /\ dg_notify' = dg_notify
    BY <1>t, <1>6, <2>b DEF LeaveClear, Types, Goto, use
  <2>5. Carrying' = Carrying
    <3>1. \A u \in Thread \ {t} : pc'[u] = pc[u] /\ frame'[u] = frame[u]
      BY <1>t, <1>6 DEF LeaveClear, Types, Goto
    <3>2. pc[t] = "clear" /\ pc'[t] \in {"clear", "capture"}
      BY <1>t, <1>6 DEF LeaveClear, Types, Goto
    <3>3. QED
      BY <3>1, <3>2 DEF Carrying
  <2>2. EnterRef' = EnterRef
    BY <2>1 DEF EnterRef
  <2>3. ListRef' = ListRef
    BY <1>t, <1>c, <1>6, <2>1 DEF LeaveClear, Types, Goto, Return, group, use, ListRef
  <2>4. Leaving' = Leaving
    BY <1>t, <1>c, <1>6 DEF LeaveClear, Types, Goto, Return, group, use, Leaving, InWake
  <2>6. QED
    BY <1>k, <2>1, <2>2, <2>3, <2>4, <2>5
<1>7. ASSUME NEW t \in Thread, WakeCapture(t) PROVE RefsCounted'
  <2>1. /\ refs' = refs /\ holds' = holds /\ dg_state' = dg_state /\ pc[t] = "capture"
        /\ \A u \in Thread \ {t} : pc'[u] = pc[u] /\ frame'[u] = frame[u]
    BY <1>t, <1>7 DEF WakeCapture, Types, Goto, use
  <2>2. pc'[t] \in {"submit", "wake"}
    BY <1>t, <1>7 DEF WakeCapture, Types, Goto
  <2>3. Leaving' = Leaving
    BY <1>c, <2>1, <2>2 DEF Leaving, InWake
  <2>4. \A u \in Thread : pc'[u] = "enterRetain" <=> pc[u] = "enterRetain"
    BY <2>1, <2>2
  <2>5. EnterRef' = EnterRef
    BY <2>1, <2>4 DEF EnterRef
  <2>6. frame'[t].old = frame[t].old
    <3>1. frame' = frame \/ frame' = [frame EXCEPT ![t].snapshot = dg_notify]
      BY <1>7 DEF WakeCapture
    <3>2. QED
      BY <1>t, <3>1 DEF Types, Frame
  <2>7. t \notin Carrying
    BY <2>1 DEF Carrying
  <2>8. CASE frame[t].old.notifs
    <3>1. dg_notify # <<>> /\ dg_notify' = <<>>
      BY <1>7, <2>8 DEF WakeCapture
    <3>2. \A u \in Thread : pc[u] # "retain"
      <4>1. ASSUME NEW u \in Thread, pc[u] = "retain" PROVE FALSE
        <5>1. Responsible(u) /\ Responsible(t)
          BY <1>t, <2>1, <2>8, <4>1 DEF Responsible, BlocksKnown
        <5>2. QED
          BY <2>1, <4>1, <5>1 DEF OneReader
      <4>2. QED
        BY <4>1
    <3>3. ListRef = 1 /\ ListRef' = 0
      BY <3>1, <3>2 DEF ListRef
    <3>4. Carrying' = Carrying \cup {t}
      BY <2>1, <2>2, <2>6, <2>8 DEF Carrying
    <3>5. Cardinality(Carrying') = Cardinality(Carrying) + 1
      BY <1>f, <2>7, <3>4, OneMore
    <3>6. QED
      BY <1>f, <1>r, <2>1, <2>3, <2>4, <2>5, <3>3, <3>5 DEF RefsCounted
  <2>9. CASE ~frame[t].old.notifs
    <3>1. dg_notify' = dg_notify
      BY <1>7, <2>9 DEF WakeCapture
    <3>2. ListRef' = ListRef
      BY <2>1, <2>2, <3>1 DEF ListRef
    <3>3. Carrying' = Carrying
      BY <2>1, <2>2, <2>6, <2>9 DEF Carrying
    <3>4. QED
      BY <1>k, <2>1, <2>3, <2>4, <2>5, <3>2, <3>3
  <2>10. QED
    BY <2>8, <2>9
<1>8. ASSUME NEW t \in Thread, WakeSubmit(t) PROVE RefsCounted'
  <2>1. /\ refs' = refs /\ holds' = holds
        /\ \A u \in Thread : pc'[u] = "enterRetain" <=> pc[u] = "enterRetain"
        /\ dg_state'.value = dg_state.value /\ dg_notify' = dg_notify
    BY <1>t, <1>c, <1>8 DEF WakeSubmit, Types, Goto, Return, group, use, Word
  <2>2. EnterRef' = EnterRef
    BY <2>1 DEF EnterRef
  <2>3. ListRef' = ListRef
    BY <1>t, <1>c, <1>8, <2>1 DEF WakeSubmit, Types, Goto, Return, group, use, ListRef
  <2>4. Leaving' = Leaving
    BY <1>t, <1>c, <1>8 DEF WakeSubmit, Types, Goto, Return, group, use, Leaving, InWake
  <2>5. Carrying' = Carrying
    BY <1>t, <1>c, <1>8 DEF WakeSubmit, Types, Goto, Return, group, use, Carrying, Frame
  <2>6. QED
    BY <1>k, <2>1, <2>2, <2>3, <2>4, <2>5
<1>9. ASSUME NEW t \in Thread, WakeWaiters(t) PROVE RefsCounted'
  <2>1. /\ refs' = refs /\ holds' = holds
        /\ \A u \in Thread : pc'[u] = "enterRetain" <=> pc[u] = "enterRetain"
        /\ dg_state'.value = dg_state.value /\ dg_notify' = dg_notify
    BY <1>t, <1>c, <1>9 DEF WakeWaiters, Types, Goto, Return, group, use, Word
  <2>2. EnterRef' = EnterRef
    BY <2>1 DEF EnterRef
  <2>3. ListRef' = ListRef
    BY <1>t, <1>c, <1>9, <2>1 DEF WakeWaiters, Types, Goto, Return, group, use, ListRef
  <2>4. Leaving' = Leaving
    BY <1>t, <1>c, <1>9 DEF WakeWaiters, Types, Goto, Return, group, use, Leaving, InWake
  <2>5. Carrying' = Carrying
    BY <1>t, <1>c, <1>9 DEF WakeWaiters, Types, Goto, Return, group, use, Carrying, Frame
  <2>6. QED
    BY <1>k, <2>1, <2>2, <2>3, <2>4, <2>5
<1>10. ASSUME NEW t \in Thread, WakeRelease(t) PROVE RefsCounted'
  <2>1. /\ refs' = refs - Due(t) /\ UNCHANGED <<holds, dg_state, dg_notify>> /\ pc[t] = "release"
        /\ pc'[t] = "idle" /\ \A u \in Thread \ {t} : pc'[u] = pc[u] /\ frame'[u] = frame[u]
    BY <1>t, <1>10 DEF WakeRelease, Return, Goto, Types, use
  <2>2. EnterRef' = EnterRef /\ ListRef' = ListRef
    BY <2>1 DEF EnterRef, ListRef
  <2>3. Cardinality(Leaving') = Cardinality(Leaving) - (IF t \in Worker THEN 1 ELSE 0)
    <3>1. CASE t \in Worker
      <4>1. t \in Leaving /\ Leaving' = Leaving \ {t}
        BY <1>c, <2>1, <3>1 DEF Leaving, InWake
      <4>2. QED
        BY <1>f, <3>1, <4>1, OneLess
    <3>2. CASE t \notin Worker
      <4>1. Leaving' = Leaving
        BY <1>c, <2>1, <3>2 DEF Leaving
      <4>2. QED
        BY <1>f, <3>2, <4>1
    <3>3. QED
      BY <3>1, <3>2
  <2>4. Cardinality(Carrying') = Cardinality(Carrying) - (IF frame[t].old.notifs THEN 1 ELSE 0)
    <3>1. CASE frame[t].old.notifs
      <4>1. t \in Carrying /\ Carrying' = Carrying \ {t}
        BY <2>1, <3>1 DEF Carrying
      <4>2. QED
        BY <1>f, <3>1, <4>1, OneLess
    <3>2. CASE ~frame[t].old.notifs
      <4>1. Carrying' = Carrying
        BY <2>1, <3>2 DEF Carrying
      <4>2. QED
        BY <1>f, <3>2, <4>1
    <3>3. QED
      BY <3>1, <3>2
  <2>5. Cardinality(Leaving') + Cardinality(Carrying') = Cardinality(Leaving) + Cardinality(Carrying) - Due(t)
        /\ Cardinality(Leaving') \in Int /\ Cardinality(Carrying') \in Int /\ Due(t) \in Int
    BY <1>f, <2>3, <2>4 DEF Due
  <2>6. QED
    BY <1>f, <1>r, <2>1, <2>2, <2>5 DEF RefsCounted
<1>11. ASSUME NEW t \in Thread, NotifyPush(t) PROVE RefsCounted'
  <2>1. /\ refs' = refs /\ holds' = holds /\ dg_state' = dg_state /\ pc[t] = "push"
        /\ \A u \in Thread \ {t} : pc'[u] = pc[u] /\ frame'[u] = frame[u]
        /\ pc'[t] = IF dg_notify = <<>> THEN "retain" ELSE "link"
    BY <1>t, <1>11 DEF NotifyPush, Types, Goto, use
  <2>2. dg_notify' # <<>>
    BY <1>t, <1>11 DEF NotifyPush, Types, BlocksKnown, InNotify
  <2>3. Leaving' = Leaving /\ Carrying' = Carrying /\ EnterRef' = EnterRef
    BY <1>c, <2>1 DEF Leaving, Carrying, EnterRef, InWake
  <2>4. ListRef' = ListRef
    BY <2>1, <2>2 DEF ListRef
  <2>5. QED
    BY <1>k, <2>1, <2>3, <2>4
<1>12. ASSUME NEW t \in Thread, NotifyRetain(t) PROVE RefsCounted'
  <2>1. /\ pc[t] = "retain" /\ pc'[t] = "link" /\ \A u \in Thread \ {t} : pc'[u] = pc[u]
        /\ refs' = refs + 1 /\ UNCHANGED <<dg_state, dg_notify, frame, holds>>
    BY <1>t, <1>12 DEF NotifyRetain, Types, Goto, use
  <2>2. Leaving' = Leaving /\ Carrying' = Carrying /\ EnterRef' = EnterRef
    BY <1>c, <2>1 DEF Leaving, Carrying, EnterRef, InWake
  <2>3. \A u \in Thread : pc[u] = "retain" => Responsible(u)
    BY <1>t DEF Responsible, BlocksKnown
  <2>4. dg_notify # <<>> /\ \A u \in Thread : pc'[u] # "retain"
    BY <2>1, <2>3 DEF OneReader
  <2>5. ListRef = 0 /\ ListRef' = 1
    BY <2>1, <2>4 DEF ListRef
  <2>6. QED
    BY <1>f, <1>r, <2>1, <2>2, <2>5 DEF RefsCounted
<1>13. ASSUME NEW t \in Thread, NotifyLink(t) PROVE RefsCounted'
  <2>1. /\ refs' = refs /\ holds' = holds
        /\ \A u \in Thread : pc'[u] = "enterRetain" <=> pc[u] = "enterRetain"
        /\ dg_state'.value = dg_state.value /\ dg_notify' = dg_notify
    BY <1>t, <1>c, <1>13 DEF NotifyLink, Types, Goto, Return, group, use, Word
  <2>2. EnterRef' = EnterRef
    BY <2>1 DEF EnterRef
  <2>3. ListRef' = ListRef
    BY <1>t, <1>c, <1>13, <2>1 DEF NotifyLink, Types, Goto, Return, group, use, ListRef
  <2>4. Leaving' = Leaving
    BY <1>t, <1>c, <1>13 DEF NotifyLink, Types, Goto, Return, group, use, Leaving, InWake
  <2>5. Carrying' = Carrying
    BY <1>t, <1>c, <1>13 DEF NotifyLink, Types, Goto, Return, group, use, Carrying, Frame
  <2>6. QED
    BY <1>k, <2>1, <2>2, <2>3, <2>4, <2>5
<1>14. ASSUME NEW t \in Thread, NotifyFlag(t) PROVE RefsCounted'
  <2>a. dg_state' = dg_state \/ dg_state' = [dg_state EXCEPT !.notifs = TRUE]
    BY <1>14 DEF NotifyFlag
  <2>b. dg_state'.value = dg_state.value
    BY <1>v, <2>a DEF Word
  <2>1. /\ refs' = refs /\ holds' = holds
        /\ \A u \in Thread : pc'[u] = "enterRetain" <=> pc[u] = "enterRetain"
        /\ dg_state'.value = dg_state.value /\ dg_notify' = dg_notify
    BY <1>t, <1>14, <2>b DEF NotifyFlag, Types, Goto, Return, use
  <2>5. Carrying' = Carrying
    <3>1. \A u \in Thread \ {t} : pc'[u] = pc[u] /\ frame'[u] = frame[u]
      BY <1>t, <1>14 DEF NotifyFlag, Types, Goto, Return
    <3>2. pc[t] = "flag" /\ pc'[t] \in {"idle", "capture"}
      BY <1>t, <1>14 DEF NotifyFlag, Types, Goto, Return
    <3>3. QED
      BY <3>1, <3>2 DEF Carrying
  <2>2. EnterRef' = EnterRef
    BY <2>1 DEF EnterRef
  <2>3. ListRef' = ListRef
    BY <1>t, <1>c, <1>14, <2>1 DEF NotifyFlag, Types, Goto, Return, group, use, ListRef
  <2>4. Leaving' = Leaving
    <3>1. t \notin Worker
      BY <1>t, <1>14 DEF NotifyFlag, Roles, WorkerPC, InWake
    <3>2. QED
      BY <1>t, <1>c, <1>14, <3>1 DEF NotifyFlag, Types, Goto, Return, Leaving
  <2>6. QED
    BY <1>k, <2>1, <2>2, <2>3, <2>4, <2>5
<1>15. ASSUME NEW t \in Thread, FutexWait(t) \/ WaitAgain(t) PROVE RefsCounted'
  <2>1. /\ refs' = refs /\ holds' = holds
        /\ \A u \in Thread : pc'[u] = "enterRetain" <=> pc[u] = "enterRetain"
        /\ dg_state'.value = dg_state.value /\ dg_notify' = dg_notify
    BY <1>t, <1>c, <1>15 DEF FutexWait, WaitAgain, Types, Goto, Return, group, use, Word
  <2>2. EnterRef' = EnterRef
    BY <2>1 DEF EnterRef
  <2>3. ListRef' = ListRef
    BY <1>t, <1>c, <1>15, <2>1 DEF FutexWait, WaitAgain, Types, Goto, Return, group, use, ListRef
  <2>4. Leaving' = Leaving
    BY <1>t, <1>c, <1>15 DEF FutexWait, WaitAgain, Types, Goto, Return, group, use, Leaving, InWake
  <2>5. Carrying' = Carrying
    BY <1>t, <1>c, <1>15 DEF FutexWait, WaitAgain, Types, Goto, Return, group, use, Carrying, Frame
  <2>6. QED
    BY <1>k, <2>1, <2>2, <2>3, <2>4, <2>5
<1>16. ASSUME NEW t \in Thread, WaitReturns0(t) \/ WaitTimesOut(t) PROVE RefsCounted'
  <2>1. /\ refs' = refs /\ holds' = holds
        /\ \A u \in Thread : pc'[u] = "enterRetain" <=> pc[u] = "enterRetain"
        /\ dg_state'.value = dg_state.value /\ dg_notify' = dg_notify
    BY <1>t, <1>c, <1>16 DEF WaitReturns0, WaitTimesOut, Types, Goto, Return, group, use, Word
  <2>2. EnterRef' = EnterRef
    BY <2>1 DEF EnterRef
  <2>3. ListRef' = ListRef
    BY <1>t, <1>c, <1>16, <2>1 DEF WaitReturns0, WaitTimesOut, Types, Goto, Return, group, use, ListRef
  <2>4. Leaving' = Leaving
    BY <1>t, <1>c, <1>16 DEF WaitReturns0, WaitTimesOut, Types, Goto, Return, group, use, Leaving, InWake
  <2>5. Carrying' = Carrying
    BY <1>t, <1>c, <1>16 DEF WaitReturns0, WaitTimesOut, Types, Goto, Return, group, use, Carrying, Frame
  <2>6. QED
    BY <1>k, <2>1, <2>2, <2>3, <2>4, <2>5
<1>17. ASSUME NEW c \in Client, NEW forever \in BOOLEAN, Wait(c, forever) PROVE RefsCounted'
  <2>1. /\ refs' = refs /\ holds' = holds
        /\ \A u \in Thread : pc'[u] = "enterRetain" <=> pc[u] = "enterRetain"
        /\ dg_state'.value = dg_state.value /\ dg_notify' = dg_notify
    BY <1>t, <1>c, <1>17 DEF Wait, Types, Goto, Return, group, use, Word
  <2>2. EnterRef' = EnterRef
    BY <2>1 DEF EnterRef
  <2>3. ListRef' = ListRef
    BY <1>t, <1>c, <1>17, <2>1 DEF Wait, Types, Goto, Return, group, use, ListRef
  <2>4. Leaving' = Leaving
    BY <1>t, <1>c, <1>17 DEF Wait, Types, Goto, Return, group, use, Leaving, InWake
  <2>5. Carrying' = Carrying
    BY <1>t, <1>c, <1>17 DEF Wait, Types, Goto, Return, group, use, Carrying, Frame
  <2>6. QED
    BY <1>k, <2>1, <2>2, <2>3, <2>4, <2>5
<1>18. ASSUME NEW c \in Client, Notify(c) PROVE RefsCounted'
  <2>1. /\ refs' = refs /\ holds' = holds
        /\ \A u \in Thread : pc'[u] = "enterRetain" <=> pc[u] = "enterRetain"
        /\ dg_state'.value = dg_state.value /\ dg_notify' = dg_notify
    BY <1>t, <1>c, <1>18 DEF Notify, Types, Goto, Return, group, use, Word
  <2>2. EnterRef' = EnterRef
    BY <2>1 DEF EnterRef
  <2>3. ListRef' = ListRef
    BY <1>t, <1>c, <1>18, <2>1 DEF Notify, Types, Goto, Return, group, use, ListRef
  <2>4. Leaving' = Leaving
    BY <1>t, <1>c, <1>18 DEF Notify, Types, Goto, Return, group, use, Leaving, InWake
  <2>5. Carrying' = Carrying
    BY <1>t, <1>c, <1>18 DEF Notify, Types, Goto, Return, group, use, Carrying, Frame
  <2>6. QED
    BY <1>k, <2>1, <2>2, <2>3, <2>4, <2>5
<1>19. ASSUME NEW c \in Client, FutexTimeout(c) \/ FutexInterrupted(c) PROVE RefsCounted'
  <2>1. /\ refs' = refs /\ holds' = holds
        /\ \A u \in Thread : pc'[u] = "enterRetain" <=> pc[u] = "enterRetain"
        /\ dg_state'.value = dg_state.value /\ dg_notify' = dg_notify
    BY <1>t, <1>c, <1>19 DEF FutexTimeout, FutexInterrupted, Types, Goto, Return, group, use, Word
  <2>2. EnterRef' = EnterRef
    BY <2>1 DEF EnterRef
  <2>3. ListRef' = ListRef
    BY <1>t, <1>c, <1>19, <2>1 DEF FutexTimeout, FutexInterrupted, Types, Goto, Return, group, use, ListRef
  <2>4. Leaving' = Leaving
    BY <1>t, <1>c, <1>19 DEF FutexTimeout, FutexInterrupted, Types, Goto, Return, group, use, Leaving, InWake
  <2>5. Carrying' = Carrying
    BY <1>t, <1>c, <1>19 DEF FutexTimeout, FutexInterrupted, Types, Goto, Return, group, use, Carrying, Frame
  <2>6. QED
    BY <1>k, <2>1, <2>2, <2>3, <2>4, <2>5
<1>20. CASE UNCHANGED vars
  <2>1. UNCHANGED <<refs, holds, dg_state, dg_notify, pc, frame>>
    BY <1>20 DEF vars, group, use
  <2>2. Leaving' = Leaving /\ Carrying' = Carrying /\ EnterRef' = EnterRef /\ ListRef' = ListRef
    BY <2>1 DEF Leaving, Carrying, EnterRef, ListRef
  <2>3. QED
    BY <1>k, <2>1, <2>2
<1>21. QED
  BY <1>1, <1>2, <1>3, <1>4, <1>5, <1>6, <1>7, <1>8, <1>9, <1>10, <1>11, <1>12, <1>13, <1>14,
     <1>15, <1>16, <1>17, <1>18, <1>19, <1>20 DEF Next, Step

-----------------------------------------------------------------------------
(* The theorems                                                              *)

\* The invariant holds when the group is created.
LEMMA InvInit == Init => IInv
<1> SUFFICES ASSUME Init PROVE IInv
  OBVIOUS
<1>c. Client \subseteq Thread /\ Worker \subseteq Thread /\ Client \cap Worker = {}
      /\ IsFiniteSet(Client)
  BY GroupAssumption DEF Thread
<1>p. \A t \in Thread : pc[t] = "idle" /\ frame[t] = NoFrame
  BY DEF Init
<1>w. /\ dg_state = ZeroWord /\ dg_state.value = 0 /\ dg_state.gen = 0
      /\ ~dg_state.waiters /\ ~dg_state.notifs
  BY DEF Init, ZeroWord
<1>1. Types
  <2>1. ZeroWord \in Word /\ <<>> \in Seq(Block)
    BY WordOps
  <2>2. NoFrame \in Frame
    BY <2>1 DEF NoFrame, Frame
  <2>3. pc \in [Thread -> PC] /\ frame \in [Thread -> Frame]
    BY <2>2 DEF Init, PC
  <2>4. refs \in Int
    BY <1>c, FS_CardinalityType DEF Init
  <2>5. QED
    BY <2>1, <2>3, <2>4, GroupAssumption DEF Init, Types
<1>2. Roles
  BY <1>c, <1>p DEF Roles, WorkerPC, ClientPC, InWait
<1>3. BlocksKnown
  <2>1. Len(<<>>) = 0 /\ dg_notify = <<>> /\ \A t \in Thread : frame[t].snapshot = <<>>
    BY <1>p DEF Init, NoFrame
  <2>2. QED
    BY <1>p, <2>1 DEF BlocksKnown, InNotify
<1>4. Counted
  <2>1. Entering = {}
    BY <1>p DEF Entering
  <2>2. Cardinality(Entering) = 0
    BY <2>1, FS_EmptySet
  <2>3. QED
    BY <1>w, <2>2 DEF Init, Counted
<1>5. OneReader
  <2>1. \A t \in Thread : ~Responsible(t)
    BY <1>p DEF Responsible, NoFrame
  <2>2. QED
    BY <1>w, <2>1 DEF OneReader, Init
<1>6. FlagsHaveReader
  BY <1>w DEF FlagsHaveReader
<1>7. WaitsKept
  BY <1>c, <1>p DEF WaitsKept, InWait
<1>8. RefsCounted
  <2>1. Leaving = {} /\ Carrying = {}
    BY <1>c, <1>p DEF Leaving, Carrying, InWake
  <2>2. Cardinality(Leaving) = 0 /\ Cardinality(Carrying) = 0
    BY <2>1, FS_EmptySet
  <2>3. EnterRef = 0 /\ ListRef = 0
    BY <1>w DEF EnterRef, ListRef, Init
  <2>4. refs = Cardinality(holds) /\ Cardinality(holds) \in Nat
    BY <1>c, FS_CardinalityType DEF Init
  <2>5. QED
    BY <1>p, <2>2, <2>3, <2>4 DEF RefsCounted
<1>9. QED
  BY <1>1, <1>2, <1>3, <1>4, <1>5, <1>6, <1>7, <1>8 DEF IInv, Structure

\* Every step keeps the invariant.
LEMMA InvStep == IInv /\ [Next]_vars => IInv'
BY TypesStep, RolesStep, BlocksStep, CountedStep, ReaderStep, FlagsStep, WaitsStep, RefsStep
   DEF IInv, Structure

\* Every reachable state of the group satisfies the invariant.
THEOREM Invariance == Spec => []IInv
<1>1. Init => IInv
  BY InvInit
<1>2. IInv /\ [Next]_vars => IInv'
  BY InvStep
<1>3. QED
  BY <1>1, <1>2, PTL DEF Spec

\* No field of the word leaves its range, and no reference is released twice.
THEOREM TypeCorrect == Spec => []TypeOK
<1>1. IInv => TypeOK
  <2> SUFFICES ASSUME IInv PROVE TypeOK
    OBVIOUS
  <2>1. /\ Cardinality(holds) \in Nat /\ Cardinality(Leaving) \in Nat /\ Cardinality(Carrying) \in Nat
        /\ EnterRef \in Nat /\ ListRef \in Nat
    <3>1. holds \subseteq Thread /\ Leaving \subseteq Thread /\ Carrying \subseteq Thread
      BY DEF IInv, Structure, Types, Leaving, Carrying, Thread
    <3>2. QED
      BY <3>1, ThreadsFinite DEF EnterRef, ListRef
  <2>2. refs \in Nat
    BY <2>1 DEF IInv, RefsCounted
  <2>3. QED
    BY <2>2 DEF IInv, Structure, Types, TypeOK
<1>2. QED
  BY <1>1, Invariance, PTL

\* A list with blocks is in the care of exactly one: the flag or one thread.
THEOREM OneFiresHolds == Spec => []OneFires
<1>1. IInv => OneFires
  <2> SUFFICES ASSUME IInv PROVE OneFires
    OBVIOUS
  <2> DEFINE R == {t \in Thread : Responsible(t)}
  <2>1. OneReader
    BY DEF IInv
  <2>2. CASE \A t \in Thread : ~Responsible(t)
    <3>1. R = {}
      BY <2>2
    <3>2. Cardinality(R) = 0
      BY <3>1, FS_EmptySet
    <3>3. dg_notify # <<>> <=> dg_state.notifs
      BY <2>1, <2>2 DEF OneReader
    <3> HIDE DEF R
    <3>4. Cardinality(R) + (IF dg_state.notifs THEN 1 ELSE 0) = IF dg_notify = <<>> THEN 0 ELSE 1
      BY <3>2, <3>3
    <3>5. QED
      BY <3>4 DEF OneFires, R
  <2>3. CASE \E t \in Thread : Responsible(t)
    <3>1. PICK t \in Thread : Responsible(t)
      BY <2>3
    <3>2. R = {t} /\ ~dg_state.notifs /\ dg_notify # <<>>
      BY <2>1, <3>1 DEF OneReader
    <3>3. Cardinality(R) = 1
      BY <3>2, FS_Singleton
    <3> HIDE DEF R
    <3>4. Cardinality(R) + (IF dg_state.notifs THEN 1 ELSE 0) = IF dg_notify = <<>> THEN 0 ELSE 1
      BY <3>2, <3>3
    <3>5. QED
      BY <3>4 DEF OneFires, R
  <2>4. QED
    BY <2>2, <2>3
<1>2. QED
  BY <1>1, Invariance, PTL

\* Flags left in the word of an empty group are read by a leave still under way.
THEOREM FlagsAreRead == Spec => []FlagsHaveReader
<1>1. IInv => FlagsHaveReader
  BY DEF IInv
<1>2. QED
  BY <1>1, Invariance, PTL

\* A thread that sleeps past its generation is about to be woken.
THEOREM WakeupsKept == Spec => []NoLostWakeup
<1>1. IInv => NoLostWakeup
  BY DEF IInv, WaitsKept, NoLostWakeup, InWait
<1>2. QED
  BY <1>1, Invariance, PTL

\* The last reference goes only when nobody uses the group and the word is clear.
THEOREM DisposedWhenUnused == Spec => []NoUseAfterDispose
<1>1. IInv => NoUseAfterDispose
  <2> SUFFICES ASSUME IInv, refs = 0
               PROVE  /\ \A t \in Thread : pc[t] = "idle"
                      /\ dg_state.value = 0 /\ ~dg_state.waiters /\ ~dg_state.notifs
                      /\ dg_notify = <<>>
    BY DEF NoUseAfterDispose
  <2>t. Types /\ Roles /\ Counted /\ OneReader /\ FlagsHaveReader /\ RefsCounted
    BY DEF IInv, Structure
  <2>1. /\ IsFiniteSet(holds) /\ IsFiniteSet(Leaving) /\ IsFiniteSet(Entering)
        /\ Cardinality(holds) \in Nat /\ Cardinality(Leaving) \in Nat /\ Cardinality(Carrying) \in Nat
        /\ EnterRef \in {0, 1} /\ ListRef \in {0, 1}
    <3>1. holds \subseteq Thread /\ Leaving \subseteq Thread /\ Carrying \subseteq Thread
          /\ Entering \subseteq Thread
      BY <2>t DEF Types, Leaving, Carrying, Entering, Thread
    <3>2. QED
      BY <3>1, ThreadsFinite DEF EnterRef, ListRef
  <2>2. Cardinality(holds) = 0 /\ Cardinality(Leaving) = 0 /\ EnterRef = 0 /\ ListRef = 0
    <3> DEFINE h == Cardinality(holds)
               l == Cardinality(Leaving)
               k == Cardinality(Carrying)
               e == EnterRef
               n == ListRef
    <3>1. 0 = h + e + l + n + k
      BY <2>t DEF RefsCounted
    <3>2. h \in Nat /\ e \in Nat /\ l \in Nat /\ n \in Nat /\ k \in Nat
      BY <2>1
    <3> HIDE DEF h, l, k, e, n
    <3>3. h = 0 /\ l = 0 /\ e = 0 /\ n = 0
      BY <3>1, <3>2
    <3>4. QED
      BY <3>3 DEF h, l, k, e, n
  <2>3. holds = {} /\ Leaving = {}
    BY <2>1, <2>2, FS_EmptySet
  <2>4. /\ \A c \in Client : pc[c] = "idle"
        /\ \A w \in Worker : pc[w] \in {"idle", "block"}
    BY <2>t, <2>3 DEF Roles, WorkerPC, Leaving
  <2>5. \A t \in Thread : pc[t] # "enterRetain" /\ pc[t] # "retain"
    BY <2>4 DEF Thread
  <2>6. dg_state.value = 0 /\ dg_notify = <<>>
    <3>1. dg_state.value \in Nat
      BY <2>t DEF Types, Word
    <3>2. QED
      BY <2>2, <2>5, <3>1 DEF EnterRef, ListRef
  <2>7. Entering = {}
    BY <2>t, <2>1, <2>6, FS_EmptySet DEF Counted
  <2>8. \A t \in Thread : pc[t] = "idle"
    BY <2>4, <2>7 DEF Thread, Entering
  <2>9. ~dg_state.notifs
    BY <2>t, <2>6 DEF OneReader
  <2>10. ~dg_state.waiters
    BY <2>t, <2>6, <2>8 DEF FlagsHaveReader, Thread
  <2>11. QED
    BY <2>6, <2>8, <2>9, <2>10
<1>2. QED
  BY <1>1, Invariance, PTL

\* A return of 0 follows a change of the generation, a timeout none.
LEMMA HonestStep ==
  IInv => \A c \in Client : /\ WaitReturns0(c) => c \in emptied
                            /\ WaitTimesOut(c) => c \notin emptied
<1> SUFFICES ASSUME IInv, NEW c \in Client
             PROVE  /\ WaitReturns0(c) => c \in emptied
                    /\ WaitTimesOut(c) => c \notin emptied
  OBVIOUS
<1>1. WaitsKept
  BY DEF IInv
<1>2. ASSUME WaitReturns0(c) PROVE c \in emptied
  BY <1>1, <1>2 DEF WaitReturns0, WaitsKept, InWait
<1>3. ASSUME WaitTimesOut(c) PROVE c \notin emptied
  BY <1>1, <1>3 DEF WaitTimesOut, WaitsKept, InWait
<1>4. QED
  BY <1>2, <1>3

\* Whatever signals, deadlines and late wakeups a thread sees, what its wait returns
\* is true: 0 if the group has been empty since the call, a timeout if it has not.
THEOREM WaitHonest == Spec => WaitIsHonest
<1>1. IInv /\ [Next]_vars =>
        [\A c \in Client : /\ WaitReturns0(c) => c \in emptied
                           /\ WaitTimesOut(c) => c \notin emptied]_vars
  BY HonestStep
<1>2. QED
  BY <1>1, Invariance, PTL DEF Spec, WaitIsHonest
================================================================================
