----------------------- MODULE DispatchSemaphore_proofs -----------------------
(***************************************************************************)
(* The counts of the semaphore, for any number of threads, any initial     *)
(* value and any number of signals.  EveryWaiterCounted needs no more than *)
(* types to be inductive; NoOverAdmission follows from it by way of        *)
(* Balance, which says where the difference between the value and the      *)
(* history is: in the threads that wait.                                   *)
(***************************************************************************)
EXTENDS DispatchSemaphore, FiniteSetTheorems, TLAPS

\* The value is the credit less the threads in the slow path of wait.
Balance == dsema_value = credit - Cardinality(In(Slow))

\* What TypeOK says without its bounds, which follow from the counts.
Types ==
  /\ dsema_value \in Int /\ dsema_sema \in Nat
  /\ at \in [Thread -> Place]
  /\ credit \in Int /\ credit <= MaxCredit

\* The inductive invariant.
IInv == Types /\ EveryWaiterCounted /\ Balance

\* The threads at some places are a finite set, no larger than that of all threads.
LEMMA PlacesFinite ==
  ASSUME NEW P
  PROVE  /\ IsFiniteSet(In(P))
         /\ Cardinality(In(P)) \in Nat
         /\ Cardinality(In(P)) <= Cardinality(Thread)
<1>1. IsFiniteSet(Thread) /\ In(P) \in SUBSET Thread
  BY SemaphoreAssumption DEF In
<1>2. QED
  BY <1>1, FS_Subset, FS_CardinalityType

\* A thread that goes from one place to another changes the two counts by one.
LEMMA Moves ==
  ASSUME NEW P, NEW t \in Thread, NEW p, at \in [Thread -> Place], Goto(t, p)
  PROVE  Cardinality(In(P))' = Cardinality(In(P)) + (IF p \in P THEN 1 ELSE 0)
                                                  - (IF at[t] \in P THEN 1 ELSE 0)
<1>1. Cardinality(In(P)) \in Nat /\ IsFiniteSet(In(P))
  BY PlacesFinite
<1>2. t \in In(P) <=> at[t] \in P
  BY DEF In
<1>3. CASE p \in P
  <2>1. In(P)' = In(P) \cup {t}
    BY <1>3 DEF In, Goto
  <2>2. QED
    BY <1>1, <1>2, <1>3, <2>1, FS_AddElement
<1>4. CASE p \notin P
  <2>1. In(P)' = In(P) \ {t}
    BY <1>4 DEF In, Goto
  <2>2. Cardinality(In(P) \ {t}) = IF t \in In(P) THEN Cardinality(In(P)) - 1 ELSE Cardinality(In(P))
    BY <1>1, FS_RemoveElement
  <2>3. QED
    BY <1>1, <1>2, <1>4, <2>1, <2>2
<1>5. QED
  BY <1>3, <1>4

\* The two counts the invariant speaks of, after a step of thread t to place p.
LEMMA CountsAfter ==
  ASSUME NEW t \in Thread, NEW p, at \in [Thread -> Place], Goto(t, p)
  PROVE  /\ Cardinality(In(Slow))' = Cardinality(In(Slow)) + (IF p \in Slow THEN 1 ELSE 0)
                                                           - (IF at[t] \in Slow THEN 1 ELSE 0)
         /\ Cardinality(In({"post"}))' = Cardinality(In({"post"})) + (IF p = "post" THEN 1 ELSE 0)
                                                                   - (IF at[t] = "post" THEN 1 ELSE 0)
         /\ p \in Place => at' \in [Thread -> Place]
<1>1. /\ p \in {"post"} <=> p = "post"
      /\ at[t] \in {"post"} <=> at[t] = "post"
  OBVIOUS
<1>2. p \in Place => at' \in [Thread -> Place]
  BY DEF Goto
<1>3. QED
  BY <1>1, <1>2, Moves

\* At its creation the semaphore is free.
LEMMA InitInv == Init => IInv
<1> SUFFICES ASSUME Init PROVE IInv
  OBVIOUS
<1>1. Types
  BY SemaphoreAssumption DEF Init, Types, Place
<1>2. In(Slow) = {} /\ In({"post"}) = {}
  BY DEF Init, In, Slow
<1>3. Cardinality(In(Slow)) = 0 /\ Cardinality(In({"post"})) = 0
  BY <1>2, FS_EmptySet
<1>4. EveryWaiterCounted /\ Balance
  BY <1>3, SemaphoreAssumption DEF Init, EveryWaiterCounted, Balance, Below
<1>5. QED
  BY <1>1, <1>4 DEF IInv

\* Every atomic operation keeps the counts in step.
LEMMA InvStep == IInv /\ [Next]_vars => IInv'
<1> SUFFICES ASSUME IInv, [Next]_vars PROVE IInv'
  OBVIOUS
<1> DEFINE s == Cardinality(In(Slow))
           q == Cardinality(In({"post"}))
<1>c. s \in Nat /\ q \in Nat
  BY PlacesFinite
<1>i. /\ dsema_value \in Int /\ dsema_sema \in Nat /\ credit \in Int /\ MaxCredit \in Nat
      /\ at \in [Thread -> Place]
      /\ credit <= MaxCredit
      /\ s = (IF dsema_value < 0 THEN -dsema_value ELSE 0) + dsema_sema + q
      /\ dsema_value = credit - s
  BY SemaphoreAssumption DEF IInv, Types, EveryWaiterCounted, Balance, Below
<1>g. ASSUME /\ dsema_value' \in Int /\ dsema_sema' \in Nat /\ credit' \in Int
             /\ at' \in [Thread -> Place]
             /\ credit' <= MaxCredit
             /\ s' = (IF dsema_value' < 0 THEN -dsema_value' ELSE 0) + dsema_sema' + q'
             /\ dsema_value' = credit' - s'
      PROVE  IInv'
  BY <1>g DEF IInv, Types, EveryWaiterCounted, Balance, Below
<1> HIDE DEF s, q
<1>1. ASSUME NEW t \in Thread, NEW timeout \in Timeout, Wait(t, timeout) PROVE IInv'
  <2>1. CASE dsema_value > 0
    <3>1. Goto(t, "out") /\ at[t] = "out"
      BY <1>1, <2>1 DEF Wait, Acquired
    <3>2. s' = s /\ q' = q /\ at' \in [Thread -> Place]
      BY <3>1, <1>i, <1>c, CountsAfter DEF s, q, Slow, Place
    <3>3. dsema_value' = dsema_value - 1 /\ credit' = credit - 1 /\ dsema_sema' = dsema_sema
      BY <1>1, <2>1 DEF Wait, Acquired
    <3>4. QED
      BY <1>i, <1>c, <1>g, <2>1, <3>2, <3>3
  <2>2. CASE ~(dsema_value > 0)
    <3>1. PICK p \in Slow : Goto(t, p)
      BY <1>1, <2>2 DEF Wait, Timeout, Slow
    <3>2. at[t] = "out"
      BY <1>1 DEF Wait
    <3>3. s' = s + 1 /\ q' = q /\ at' \in [Thread -> Place]
      BY <3>1, <3>2, <1>i, <1>c, CountsAfter DEF s, q, Slow, Place
    <3>4. dsema_value' = dsema_value - 1 /\ credit' = credit /\ dsema_sema' = dsema_sema
      BY <1>1, <2>2 DEF Wait
    <3>5. QED
      BY <1>i, <1>c, <1>g, <2>2, <3>3, <3>4
  <2>3. QED
    BY <2>1, <2>2
<1>2. ASSUME NEW t \in Thread, TimedWaitGets(t) \/ WaitGets(t) PROVE IInv'
  <2>1. /\ at[t] \in {"timedwait", "wait"} /\ Goto(t, "out") /\ credit' = credit - 1
        /\ dsema_sema > 0 /\ dsema_sema' = dsema_sema - 1 /\ dsema_value' = dsema_value
    BY <1>2 DEF TimedWaitGets, WaitGets, Acquired
  <2>2. s' = s - 1 /\ q' = q /\ at' \in [Thread -> Place]
    BY <2>1, <1>i, <1>c, CountsAfter DEF s, q, Slow, Place
  <2>3. QED
    BY <1>i, <1>c, <1>g, <2>1, <2>2
<1>3. ASSUME NEW t \in Thread, TimedWaitExpires(t) PROVE IInv'
  <2>1. at[t] = "timedwait" /\ Goto(t, "undo") /\ UNCHANGED <<dsema_value, dsema_sema, credit>>
    BY <1>3 DEF TimedWaitExpires
  <2>2. s' = s /\ q' = q /\ at' \in [Thread -> Place]
    BY <2>1, <1>i, <1>c, CountsAfter DEF s, q, Slow, Place
  <2>3. QED
    BY <1>i, <1>c, <1>g, <2>1, <2>2
<1>4. ASSUME NEW t \in Thread, Undo(t) PROVE IInv'
  <2>1. CASE dsema_value < 0
    <3>1. /\ at[t] = "undo" /\ Goto(t, "out") /\ dsema_value' = dsema_value + 1
          /\ UNCHANGED <<dsema_sema, credit>>
      BY <1>4, <2>1, <1>i DEF Undo
    <3>2. s' = s - 1 /\ q' = q /\ at' \in [Thread -> Place]
      BY <3>1, <1>i, <1>c, CountsAfter DEF s, q, Slow, Place
    <3>3. QED
      BY <1>i, <1>c, <1>g, <2>1, <3>1, <3>2
  <2>2. CASE ~(dsema_value < 0)
    <3>1. at[t] = "undo" /\ Goto(t, "wait") /\ UNCHANGED <<dsema_value, dsema_sema, credit>>
      BY <1>4, <2>2, <1>i DEF Undo
    <3>2. s' = s /\ q' = q /\ at' \in [Thread -> Place]
      BY <3>1, <1>i, <1>c, CountsAfter DEF s, q, Slow, Place
    <3>3. QED
      BY <1>i, <1>c, <1>g, <3>1, <3>2
  <2>3. QED
    BY <2>1, <2>2
<1>5. ASSUME NEW t \in Thread, Post(t) PROVE IInv'
  <2>1. /\ at[t] = "post" /\ Goto(t, "out") /\ dsema_sema' = dsema_sema + 1
        /\ UNCHANGED <<dsema_value, credit>>
    BY <1>5 DEF Post
  <2>2. s' = s /\ q' = q - 1 /\ at' \in [Thread -> Place]
    BY <2>1, <1>i, <1>c, CountsAfter DEF s, q, Slow, Place
  <2>3. QED
    BY <1>i, <1>c, <1>g, <2>1, <2>2
<1>6. ASSUME NEW t \in Thread, Signal(t) PROVE IInv'
  <2>0. /\ at[t] = "out" /\ dsema_value' = dsema_value + 1 /\ credit' = credit + 1
        /\ credit < MaxCredit /\ dsema_sema' = dsema_sema
    BY <1>6 DEF Signal
  <2>1. CASE dsema_value >= 0
    <3>1. at' = at
      BY <1>6, <2>1 DEF Signal
    <3>2. s' = s /\ q' = q
      BY <3>1 DEF s, q, In
    <3>3. QED
      BY <1>i, <1>c, <1>g, <2>0, <2>1, <3>1, <3>2
  <2>2. CASE ~(dsema_value >= 0)
    <3>1. Goto(t, "post")
      BY <1>6, <2>2 DEF Signal
    <3>2. s' = s /\ q' = q + 1 /\ at' \in [Thread -> Place]
      BY <3>1, <2>0, <1>i, <1>c, CountsAfter DEF s, q, Slow, Place
    <3>3. QED
      BY <1>i, <1>c, <1>g, <2>0, <2>2, <3>2
  <2>3. QED
    BY <2>1, <2>2
<1>7. CASE UNCHANGED vars
  <2>1. s' = s /\ q' = q /\ UNCHANGED <<dsema_value, dsema_sema, at, credit>>
    BY <1>7 DEF vars, s, q, In
  <2>2. QED
    BY <1>i, <1>g, <2>1
<1>8. QED
  BY <1>1, <1>2, <1>3, <1>4, <1>5, <1>6, <1>7 DEF Next, Step

\* Hence it holds whatever the threads do.
THEOREM Invariance == Spec => []IInv
BY InitInv, InvStep, PTL DEF Spec

\* The value and the posts are bounded by the threads there are, and every variable
\* keeps its type.
THEOREM TypeCorrect == Spec => []TypeOK
<1>1. IInv => TypeOK
  <2> SUFFICES ASSUME IInv PROVE TypeOK
    OBVIOUS
  <2> DEFINE s == Cardinality(In(Slow))
             q == Cardinality(In({"post"}))
             n == Cardinality(Thread)
  <2>1. s \in Nat /\ q \in Nat /\ n \in Nat /\ s <= n
    BY PlacesFinite, SemaphoreAssumption, FS_CardinalityType
  <2>2. /\ dsema_value \in Int /\ dsema_sema \in Nat /\ credit \in Int /\ credit <= MaxCredit
        /\ MaxCredit \in Nat
        /\ s = (IF dsema_value < 0 THEN -dsema_value ELSE 0) + dsema_sema + q
        /\ dsema_value = credit - s
    BY SemaphoreAssumption DEF IInv, Types, EveryWaiterCounted, Balance, Below
  <2> HIDE DEF s, q, n
  <2>3. dsema_value \in -n..MaxCredit /\ dsema_sema \in 0..n
    BY <2>1, <2>2
  <2>4. QED
    BY <2>3 DEF n, IInv, Types, TypeOK
<1>2. QED
  BY <1>1, Invariance, PTL

\* However deadlines and signals race, every thread in the slow path of wait is
\* counted exactly once, so none is left asleep with nothing on its way.
THEOREM WaitersCounted == Spec => []EveryWaiterCounted
<1>1. IInv => EveryWaiterCounted
  BY DEF IInv
<1>2. QED
  BY <1>1, Invariance, PTL

\* No more waits return 0 than there were signals and initial credit.
THEOREM Admission == Spec => []NoOverAdmission
<1>1. IInv => NoOverAdmission
  <2> SUFFICES ASSUME IInv PROVE credit >= 0
    BY DEF NoOverAdmission
  <2> DEFINE s == Cardinality(In(Slow))
             q == Cardinality(In({"post"}))
  <2>1. q \in Nat /\ s \in Nat
    BY PlacesFinite
  <2>2. /\ dsema_value \in Int /\ dsema_sema \in Nat /\ credit \in Int
        /\ s = (IF dsema_value < 0 THEN -dsema_value ELSE 0) + dsema_sema + q
        /\ dsema_value = credit - s
    BY DEF IInv, Types, EveryWaiterCounted, Balance, Below
  <2> HIDE DEF s, q
  <2>3. QED
    BY <2>1, <2>2
<1>2. QED
  BY <1>1, Invariance, PTL

\* Between calls nothing is left of the waits that timed out.
THEOREM NoTrace == Spec => []TimeoutsLeaveNoTrace
<1>1. IInv => TimeoutsLeaveNoTrace
  <2> SUFFICES ASSUME IInv, In(Place \ {"out"}) = {} PROVE dsema_value = credit
    BY DEF TimeoutsLeaveNoTrace
  <2>1. In(Slow) = {}
    BY DEF In, Slow, Place
  <2>2. Cardinality(In(Slow)) = 0
    BY <2>1, FS_EmptySet
  <2>3. QED
    BY <2>2 DEF IInv, Types, Balance
<1>2. QED
  BY <1>1, Invariance, PTL
================================================================================
