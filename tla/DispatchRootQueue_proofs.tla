------------------------ MODULE DispatchRootQueue_proofs ------------------------
(***************************************************************************)
(* The invariants of a global queue, for any number of clients, workers    *)
(* and items, any chains and any size of the pool.  The inductive          *)
(* invariant IInv has three parts beside the types: the roles of the       *)
(* threads, the two accounts, and OneLeads: at most one place (the head, a *)
(* worker, a pusher or a link still to be followed) leads to an item, and  *)
(* none to one that ran.  The accounts are kept because each step books    *)
(* what it changes for the one thread that moves; OneLeads because a step  *)
(* makes a place lose its item, or pass it on to one other place.  The     *)
(* mediator is shown to be used as its specification allows, and its types *)
(* come from the theorems about the semaphore.                             *)
(***************************************************************************)
EXTENDS DispatchRootQueue, FiniteSetTheorems, TLAPS

\* The semaphore's theorems, for the mediator.
Mediation == INSTANCE DispatchSemaphore_proofs
               WITH Orig <- 0, MaxCredit <- MaxCredit + Cardinality(Thread) + Cardinality(Item)

AllPC == ClientPC \cup PokePC \cup WorkerPC \cup MonitorPC

\* What TypeOK says, without the bounds that follow from the accounts.
Types ==
  /\ chain \in Chains /\ overcommit \in BOOLEAN
  /\ dq_items_head \in Item \cup {None, Mediator} /\ dq_items_tail \in Item \cup {None}
  /\ do_next \in [Item -> Item \cup {None}]
  /\ dgq_pending \in Int /\ dgq_thread_pool_size \in Int /\ dgq_thread_pool_size >= Floor
  /\ pc \in [Thread -> AllPC]
  /\ reg \in [Thread -> Locals]
  /\ registered_tids \subseteq Worker /\ monitoring \in BOOLEAN
  /\ ran \subseteq Item

\* Threads keep to the steps of their kind; a poke asks for at least one thread, for
\* no more than the pool allows once it takes them, and returns to its caller; and a
\* worker owns an item when it should.
Allowed(l) == IF l.t_count < l.floor THEN 0 ELSE l.t_count - l.floor
Fits(t, p, l) ==
  /\ t \in Client => /\ p \in ClientPC \cup PokePC
                     /\ p \in {"push", "link"} => chain[t] # <<>>
                     /\ p \in PokePC => l.back = "done"
  /\ t \in Worker => /\ p \in WorkerPC \cup PokePC
                     /\ p \in PokePC => l.back \in {"invoke", "park", "none"}
                     /\ p \in Owned \/ (p \in PokePC /\ l.back = "invoke") => l.item \in Item
  /\ t = Monitor => /\ p \in MonitorPC \cup PokePC
                    /\ p \in PokePC => l.back = "tick"
  /\ p \in PokePC => /\ l.remaining >= 1
                     /\ p = "reduce" => l.remaining > Allowed(l)
                     /\ p = "take" => l.remaining <= Allowed(l)
Roles == \A t \in Thread : Fits(t, pc[t], reg[t])

\* An item whose link was followed, or never will be: its worker has read it, or runs
\* or ran the item.
Consumed(i) ==
  \/ i \in ran
  \/ \E w \in Worker : /\ reg[w].item = i
                       /\ \/ pc[w] \in {"rehead", "invoke"}
                          \/ pc[w] \in PokePC /\ reg[w].back = "invoke"

\* The places that lead to an item: the head of the queue, a worker that owns it, one
\* that is about to make it the head, the link of an item before it, and a client that
\* pushes it as the first of its chain.
Leads(k, x, i) ==
  \/ k = "head" /\ x = None /\ dq_items_head = i
  \/ k = "owner" /\ x \in Worker /\ Owns(x) /\ reg[x].item = i
  \/ k = "next" /\ x \in Worker /\ pc[x] = "rehead" /\ reg[x].next = i
  \/ k = "link" /\ x \in Item /\ ~Consumed(x) /\ do_next[x] = i
  \/ k = "push" /\ x \in Client /\ \/ pc[x] = "push" /\ Head(chain[x]) = i
                                   \/ pc[x] = "link" /\ reg[x].next = i
Kinds == {"head", "owner", "next", "link", "push"}
Holders == Worker \cup Item \cup Client \cup {None}

\* At most one place leads to an item, and none to one that ran.
OneLeads ==
  \A i \in Item :
    /\ \A k, l \in Kinds, x, y \in Holders : Leads(k, x, i) /\ Leads(l, y, i) => k = l /\ x = y
    /\ i \in ran => \A k \in Kinds, x \in Holders : ~Leads(k, x, i)

\* The inductive invariant.
IInv == Types /\ Roles /\ PendingAccounted /\ PoolAccounted /\ OneLeads

-----------------------------------------------------------------------------
(* The constants                                                             *)

\* The three kinds of threads, and the floors of the pool.
LEMMA Basics ==
  /\ Client \subseteq Thread /\ Worker \subseteq Thread /\ Monitor \in Thread
  /\ Client \cap Worker = {} /\ Monitor \notin Client /\ Monitor \notin Worker
  /\ Floor \in Int /\ Floor <= 0 /\ UnderTargetFloor \in Floor..0
  /\ MaxThreads \in Nat /\ ActiveCpus \in Nat /\ ActiveCpus <= MaxThreads
  /\ Cardinality(Item) \in Nat /\ Cardinality(Item) >= 1
<1>1. Cardinality(Item) \in Nat /\ Cardinality(Item) # 0
  BY RootQueueAssumption, FS_CardinalityType, FS_EmptySet
<1>2. ActiveCpus \in Nat /\ MaxThreads \in Nat /\ ActiveCpus <= MaxThreads
  BY RootQueueAssumption
<1>3. Floor \in Int /\ Floor <= 0 /\ UnderTargetFloor \in Floor..0
  BY <1>2 DEF Floor, UnderTargetFloor
<1>4. QED
  BY <1>1, <1>2, <1>3, RootQueueAssumption DEF Thread

\* There is no longer chain than one of all items.
LEMMA ChainLength ==
  ASSUME NEW ch \in Chains, NEW c \in Client
  PROVE  ch[c] \in Seq(Item) /\ Len(ch[c]) \in 0..Cardinality(Item)
<1>1. ch[c] \in Seq(Item)
  BY RootQueueAssumption
<1> DEFINE n == Len(ch[c])
<1>2. n \in Nat /\ ch[c] \in [1..n -> Item]
  BY <1>1
<1>3. \A i, j \in 1..n : ch[c][i] = ch[c][j] => i = j
  BY RootQueueAssumption
<1>4. ch[c] \in Injection(1..n, Item)
  BY <1>2, <1>3 DEF Injection, IsInjective
<1>5. Cardinality(1..n) = n
  BY <1>2, FS_Interval
<1>6. Cardinality(1..n) <= Cardinality(Item)
  BY <1>4, FS_Injection, RootQueueAssumption
<1>7. QED
  BY <1>1, <1>2, <1>5, <1>6, Basics

-----------------------------------------------------------------------------
(* Sums                                                                      *)

\* n units of one thread are n.
LEMMA Column ==
  ASSUME NEW t, NEW n \in Nat
  PROVE  IsFiniteSet({t} \X (1..n)) /\ Cardinality({t} \X (1..n)) = n
<1>1. IsFiniteSet({t}) /\ Cardinality({t}) = 1
  BY FS_Singleton
<1>2. IsFiniteSet(1..n) /\ Cardinality(1..n) = n
  BY FS_Interval
<1>3. Cardinality({t} \X (1..n)) = 1 * n /\ IsFiniteSet({t} \X (1..n))
  BY <1>1, <1>2, FS_Product
<1>4. QED
  BY <1>3

\* The sum changes by what it changes for one thread.
LEMMA TotalChange ==
  ASSUME NEW f \in [Thread -> 0..Cardinality(Item)], NEW t \in Thread,
         NEW n \in 0..Cardinality(Item)
  PROVE  Total([f EXCEPT ![t] = n]) = Total(f) - f[t] + n /\ Total(f) \in Nat
<1> DEFINE g == [f EXCEPT ![t] = n]
           U == Thread \X (1..Cardinality(Item))
           Rest == {p \in U : p[2] <= f[p[1]] /\ p[1] # t}
           F == {t} \X (1..f[t])
           G == {t} \X (1..n)
<1>1. Cardinality(Item) \in Nat /\ f[t] \in Nat /\ n \in Nat
      /\ f[t] <= Cardinality(Item) /\ n <= Cardinality(Item)
  BY Basics
<1>2. Units(f) = Rest \cup F
  BY <1>1 DEF Units
<1>3. Units(g) = Rest \cup G
  BY <1>1 DEF Units
<1>4. Rest \cap F = {} /\ Rest \cap G = {}
  OBVIOUS
<1>5. IsFiniteSet(F) /\ Cardinality(F) = f[t] /\ IsFiniteSet(G) /\ Cardinality(G) = n
  BY <1>1, Column
<1>6. IsFiniteSet(Rest)
  <2>1. IsFiniteSet(Thread)
    BY RootQueueAssumption, FS_Union, FS_Singleton DEF Thread
  <2>2. IsFiniteSet(1..Cardinality(Item))
    BY <1>1, FS_Interval
  <2>3. IsFiniteSet(U)
    BY <2>1, <2>2, FS_Product
  <2>4. QED
    BY <2>3, FS_Subset
<1> HIDE DEF Rest, F, G, g
<1>7. Cardinality(Rest) \in Nat
  BY <1>6, FS_CardinalityType
<1>8. Cardinality(Rest \cap F) = 0 /\ Cardinality(Rest \cap G) = 0
  BY <1>4, FS_EmptySet
<1>9. /\ Cardinality(Rest \cup F) = Cardinality(Rest) + Cardinality(F) - Cardinality(Rest \cap F)
      /\ Cardinality(Rest \cup G) = Cardinality(Rest) + Cardinality(G) - Cardinality(Rest \cap G)
  BY <1>5, <1>6, FS_Union
<1>10. Total(f) = Cardinality(Rest) + f[t] /\ Total(g) = Cardinality(Rest) + n
  <2>1. Total(f) = Cardinality(Rest \cup F) /\ Total(g) = Cardinality(Rest \cup G)
    BY <1>2, <1>3 DEF Total
  <2>2. QED
    BY <1>1, <1>5, <1>7, <1>8, <1>9, <2>1
<1>11. Total(g) = Total(f) - f[t] + n /\ Total(f) \in Nat
  BY <1>1, <1>7, <1>10
<1>12. QED
  BY <1>11 DEF g

\* Sets of threads are finite, and gain or lose one at a time.
LEMMA ThreadsFinite == ASSUME NEW S, S \subseteq Thread PROVE IsFiniteSet(S) /\ Cardinality(S) \in Nat
<1>1. IsFiniteSet(Thread)
  BY RootQueueAssumption, FS_Union, FS_Singleton DEF Thread
<1>2. QED
  BY <1>1, FS_Subset, FS_CardinalityType

\* A set of threads that gains one.
LEMMA OneMore ==
  ASSUME NEW S, NEW R, NEW x, S \subseteq Thread, x \notin S, R = S \cup {x}
  PROVE  Cardinality(R) = Cardinality(S) + 1
BY ThreadsFinite, FS_AddElement

\* A set of threads that loses one.
LEMMA OneLess ==
  ASSUME NEW S, NEW R, NEW x, S \subseteq Thread, x \in S, R = S \ {x}
  PROVE  Cardinality(R) = Cardinality(S) - 1
<1>1. Cardinality(S \ {x}) = Cardinality(S) - 1
  BY ThreadsFinite, FS_RemoveElement
<1>2. QED
  BY <1>1

-----------------------------------------------------------------------------
(* Calls                                                                     *)

\* The locals of a call of poke, and those it leaves behind.
Call(i, n, f, b) == [item |-> i, next |-> None, remaining |-> n, floor |-> f, t_count |-> 0, back |-> b]

\* What the code assigns when poke returns.
LEMMA CallIs ==
  ASSUME NEW i
  PROVE  NoLocals = Call(None, 0, 0, "done") /\ [NoLocals EXCEPT !.item = i] = Call(i, 0, 0, "done")
<1>1. NoLocals = [item |-> None, next |-> None, remaining |-> 0, floor |-> 0, t_count |-> 0, back |-> "done"]
  BY DEF NoLocals
<1>2. QED
  BY <1>1 DEF Call

\* The types of these locals.
LEMMA CallType ==
  \A i \in Item \cup {None, Mediator}, n \in 0..Cardinality(Item), f \in Floor..0,
     b \in {"done", "invoke", "park", "none", "tick"} : Call(i, n, f, b) \in Locals
<1>1. 0 \in Floor..MaxThreads
  BY Basics
<1>2. QED
  BY <1>1 DEF Call, Locals

\* A call of poke by a thread of each kind.
LEMMA PokeFits ==
  ASSUME Types, NEW t \in Thread, NEW n \in 1..Cardinality(Item), NEW f \in Floor..0, NEW b,
         t \in Client => b = "done", t \in Worker => b \in {"invoke", "park", "none"},
         t = Monitor => b = "tick", b = "invoke" => reg[t].item \in Item,
         Poke(t, n, f, b)
  PROVE  LET l == Call(IF b = "invoke" THEN reg[t].item ELSE None, n, f, b) IN
         /\ pc' = [pc EXCEPT ![t] = "probe"] /\ reg' = [reg EXCEPT ![t] = l]
         /\ l \in Locals /\ Fits(t, "probe", l)
<1> DEFINE i == IF b = "invoke" THEN reg[t].item ELSE None
           l == Call(i, n, f, b)
<1>1. pc' = [pc EXCEPT ![t] = "probe"] /\ reg' = [reg EXCEPT ![t] = l]
  <2>1. [NoLocals EXCEPT !.item = i, !.remaining = n, !.floor = f, !.back = b] = l
    <3>1. NoLocals = [item |-> None, next |-> None, remaining |-> 0, floor |-> 0, t_count |-> 0, back |-> "done"]
      BY DEF NoLocals
    <3> HIDE DEF i
    <3>2. [NoLocals EXCEPT !.item = i] = Call(i, 0, 0, "done")
      BY <3>1 DEF Call
    <3>3. [Call(i, 0, 0, "done") EXCEPT !.remaining = n] = Call(i, n, 0, "done")
      BY DEF Call
    <3>4. [Call(i, n, 0, "done") EXCEPT !.floor = f] = Call(i, n, f, "done")
      BY DEF Call
    <3>5. [Call(i, n, f, "done") EXCEPT !.back = b] = Call(i, n, f, b)
      BY DEF Call
    <3>6. QED
      BY <3>2, <3>3, <3>4, <3>5
  <2>2. pc' = [pc EXCEPT ![t] = "probe"]
        /\ reg' = [reg EXCEPT ![t] = [NoLocals EXCEPT !.item = i, !.remaining = n, !.floor = f, !.back = b]]
    BY DEF Poke, Goto, Keep
  <2>3. QED
    BY <2>1, <2>2
<1>2. i \in Item \cup {None, Mediator} /\ b \in {"done", "invoke", "park", "none", "tick"}
      /\ n \in 0..Cardinality(Item)
  BY Basics DEF Thread
<1>3. l \in Locals
  BY <1>2, CallType
<1>4. l.item = i /\ l.remaining = n /\ l.back = b /\ n >= 1
  BY DEF Call
<1> HIDE DEF l
<1>5. Fits(t, "probe", l)
  BY <1>4, Basics DEF Fits, PokePC, Owned, ClientPC, WorkerPC, MonitorPC
<1>6. QED
  BY <1>1, <1>3, <1>5 DEF l

\* A return from poke.
LEMMA ReturnFits ==
  ASSUME Types, Roles, NEW t \in Thread, pc[t] \in PokePC
  PROVE  LET l == Call(reg[t].item, 0, 0, "done") IN
         /\ [NoLocals EXCEPT !.item = reg[t].item] = l
         /\ reg[t].back \in AllPC /\ reg[t].back \notin PokePC
         /\ l \in Locals /\ l.item = reg[t].item /\ Fits(t, reg[t].back, l)
<1> DEFINE l == Call(reg[t].item, 0, 0, "done")
<1>1. [NoLocals EXCEPT !.item = reg[t].item] = l
  BY CallIs
<1>2. reg[t].item \in Item \cup {None, Mediator} /\ 0 \in 0..Cardinality(Item) /\ 0 \in Floor..0
  BY Basics DEF Types, Locals
<1>3. l \in Locals
  BY <1>2, CallType
<1>4. l.item = reg[t].item
  BY DEF Call
<1>5. Fits(t, pc[t], reg[t])
  BY DEF Roles
<1> HIDE DEF l
<1>6. reg[t].back \notin PokePC /\ reg[t].back \in AllPC
  BY <1>5 DEF Fits, AllPC, ClientPC, WorkerPC, MonitorPC, PokePC, Thread
<1>7. Fits(t, reg[t].back, l)
  BY <1>4, <1>5, <1>6, Basics DEF Fits, ClientPC, WorkerPC, MonitorPC, Owned
<1>8. QED
  BY <1>1, <1>3, <1>4, <1>6, <1>7 DEF l

\* What a step leaves of the roles if only the place and the locals of one thread change.
LEMMA OneMoves ==
  ASSUME Types, Roles, NEW t \in Thread, NEW p \in AllPC, NEW l \in Locals, Fits(t, p, l),
         pc' = [pc EXCEPT ![t] = p], reg' = [reg EXCEPT ![t] = l], chain' = chain
  PROVE  Roles' /\ pc' \in [Thread -> AllPC] /\ reg' \in [Thread -> Locals]
<1>1. pc' \in [Thread -> AllPC] /\ reg' \in [Thread -> Locals]
  BY DEF Types
<1>2. ASSUME NEW u \in Thread PROVE Fits(u, pc[u], reg[u])'
  <2>1. CASE u = t
    <3>1. pc'[u] = p /\ reg'[u] = l
      BY <2>1 DEF Types
    <3>2. QED
      BY <2>1, <3>1 DEF Fits
  <2>2. CASE u # t
    <3>1. pc'[u] = pc[u] /\ reg'[u] = reg[u] /\ Fits(u, pc[u], reg[u])
      BY <2>2 DEF Types, Roles
    <3>2. QED
      BY <3>1 DEF Fits
  <2>3. QED
    BY <2>1, <2>2
<1>3. QED
  BY <1>1, <1>2 DEF Roles

\* The same for a thread whose locals stay.
LEMMA OneGoes ==
  ASSUME Types, Roles, NEW t \in Thread, NEW p \in AllPC, Fits(t, p, reg[t]),
         pc' = [pc EXCEPT ![t] = p], reg' = reg, chain' = chain
  PROVE  Roles' /\ pc' \in [Thread -> AllPC] /\ reg' \in [Thread -> Locals]
<1>1. reg[t] \in Locals /\ reg' = [reg EXCEPT ![t] = reg[t]]
  BY DEF Types
<1>2. QED
  BY <1>1, OneMoves

\* A step within poke.
LEMMA PokeOn ==
  ASSUME Types, Roles, NEW t \in Thread, pc[t] \in PokePC, NEW p \in PokePC, NEW l \in Locals,
         l.back = reg[t].back, l.item = reg[t].item, l.remaining >= 1,
         p = "reduce" => l.remaining > Allowed(l), p = "take" => l.remaining <= Allowed(l)
  PROVE  p \in AllPC /\ Fits(t, p, l)
<1>1. Fits(t, pc[t], reg[t])
  BY DEF Roles
<1>2. p \notin {"push", "link"} /\ p \notin Owned /\ p \in AllPC
  BY DEF PokePC, Owned, AllPC
<1>3. QED
  BY <1>1, <1>2 DEF Fits

\* Every step keeps the types and the roles.
LEMMA ShapeStep ==
  Types /\ Roles /\ dgq_thread_pool_size <= MaxThreads /\ [Next]_vars => Types' /\ Roles'
<1> SUFFICES ASSUME Types, Roles, dgq_thread_pool_size <= MaxThreads, [Next]_vars PROVE Types' /\ Roles'
  OBVIOUS
<1>t. Types /\ Roles
  OBVIOUS
<1>b. /\ Client \subseteq Thread /\ Worker \subseteq Thread /\ Monitor \in Thread
      /\ Client \cap Worker = {} /\ Monitor \notin Client /\ Monitor \notin Worker
      /\ Floor \in Int /\ Floor <= 0 /\ UnderTargetFloor \in Floor..0
      /\ MaxThreads \in Nat /\ ActiveCpus \in Nat
      /\ Cardinality(Item) \in Nat /\ Cardinality(Item) >= 1
  BY Basics
<1>l. NoLocals \in Locals
  BY <1>b DEF NoLocals, Locals
<1>r. ASSUME NEW t \in Thread, pc[t] \in PokePC, PokeReturns(t), chain' = chain
      PROVE  Roles' /\ pc' \in [Thread -> AllPC] /\ reg' \in [Thread -> Locals]
  <2> DEFINE l == [NoLocals EXCEPT !.item = reg[t].item]
  <2>1. l \in Locals /\ reg[t].back \in AllPC /\ Fits(t, reg[t].back, l)
    BY <1>r, ReturnFits
  <2>2. pc' = [pc EXCEPT ![t] = reg[t].back] /\ reg' = [reg EXCEPT ![t] = l]
    BY <1>r DEF PokeReturns, Goto, Keep
  <2> HIDE DEF l
  <2>3. QED
    BY <1>r, <2>1, <2>2, OneMoves
<1>o. ASSUME NEW t \in Thread, pc[t] \in PokePC, NEW p \in PokePC \ {"reduce", "take"},
             Goto(t, p), reg' = reg, chain' = chain
      PROVE  Roles' /\ pc' \in [Thread -> AllPC] /\ reg' \in [Thread -> Locals]
  <2>1. reg[t] \in Locals /\ reg[t].remaining >= 1
    BY <1>o DEF Types, Roles, Fits
  <2>2. p \in AllPC /\ Fits(t, p, reg[t])
    BY <1>o, <2>1, PokeOn
  <2>3. QED
    BY <1>o, <2>2, OneGoes DEF Goto
<1>z. ASSUME NEW t \in Thread, pc[t] \in PokePC, PokeSizes(t, dgq_thread_pool_size), chain' = chain
      PROVE  Roles' /\ pc' \in [Thread -> AllPC] /\ reg' \in [Thread -> Locals]
  <2> DEFINE l == [reg[t] EXCEPT !.t_count = dgq_thread_pool_size]
             p == IF reg[t].remaining > CanRequest(t, dgq_thread_pool_size) THEN "reduce" ELSE "take"
  <2>1. pc' = [pc EXCEPT ![t] = p] /\ reg' = [reg EXCEPT ![t] = l]
    BY <1>z DEF PokeSizes, Goto, Keep
  <2>2. reg[t] \in Locals /\ reg[t].remaining >= 1 /\ dgq_thread_pool_size \in Floor..MaxThreads
    BY <1>z, <1>b DEF Types, Roles, Fits
  <2>3. /\ l \in Locals /\ l.back = reg[t].back /\ l.item = reg[t].item /\ l.floor = reg[t].floor
        /\ l.remaining = reg[t].remaining /\ l.t_count = dgq_thread_pool_size
    BY <2>2 DEF Locals
  <2>4. CanRequest(t, dgq_thread_pool_size) = Allowed(l) /\ Allowed(l) \in Int /\ reg[t].remaining \in Int
    BY <1>b, <2>2, <2>3 DEF CanRequest, Allowed, Locals
  <2>5. p \in PokePC /\ (p = "reduce" => l.remaining > Allowed(l)) /\ (p = "take" => l.remaining <= Allowed(l))
    BY <2>3, <2>4 DEF PokePC
  <2> HIDE DEF l, p
  <2>6. p \in AllPC /\ Fits(t, p, l)
    BY <1>z, <2>2, <2>3, <2>5, PokeOn
  <2>7. QED
    BY <1>z, <2>1, <2>3, <2>6, OneMoves
<1>1. ASSUME NEW c \in Client, PushTail(c) PROVE Types' /\ Roles'
  <2> DEFINE last == chain[c][Len(chain[c])]
             l == [NoLocals EXCEPT !.item = dq_items_tail, !.next = Head(chain[c])]
  <2>1. chain[c] \in Seq(Item) /\ chain[c] # <<>>
    BY <1>t, <1>b, <1>1, ChainLength DEF PushTail, Types, Roles, Fits
  <2>2. last \in Item /\ Head(chain[c]) \in Item
    BY <2>1
  <2>3. l \in Locals
    <3> DEFINE hd == Head(chain[c])
    <3> HIDE DEF hd
    <3>2. [NoLocals EXCEPT !.item = dq_items_tail, !.next = hd] =
              [item |-> dq_items_tail, next |-> hd, remaining |-> 0, floor |-> 0, t_count |-> 0,
               back |-> "done"]
      <4>1. [NoLocals EXCEPT !.item = dq_items_tail] = Call(dq_items_tail, 0, 0, "done")
        BY CallIs
      <4>2. [Call(dq_items_tail, 0, 0, "done") EXCEPT !.next = hd] =
              [item |-> dq_items_tail, next |-> hd, remaining |-> 0, floor |-> 0, t_count |-> 0, back |-> "done"]
        BY DEF Call
      <4>3. QED
        BY <4>1, <4>2
    <3>3. 0 \in 0..Cardinality(Item) /\ 0 \in Floor..0 /\ 0 \in Floor..MaxThreads
      BY <1>b
    <3>4. hd \in Item /\ l = [NoLocals EXCEPT !.item = dq_items_tail, !.next = hd]
      BY <2>2 DEF hd
    <3> HIDE DEF l
    <3>5. QED
      BY <1>t, <3>2, <3>3, <3>4 DEF Locals, Types
  <2>4. Fits(c, "link", l) /\ "link" \in AllPC
    BY <1>b, <2>1 DEF Fits, PokePC, ClientPC, AllPC
  <2>5. pc' = [pc EXCEPT ![c] = "link"] /\ reg' = [reg EXCEPT ![c] = l] /\ chain' = chain
    BY <1>1 DEF PushTail, Goto, Keep, callVars
  <2>6. Roles' /\ pc' \in [Thread -> AllPC] /\ reg' \in [Thread -> Locals]
    BY <1>t, <1>b, <2>3, <2>4, <2>5, OneMoves
  <2>7. dq_items_tail' \in Item /\ do_next' \in [Item -> Item \cup {None}]
    BY <1>t, <1>1, <2>2 DEF PushTail, Types
  <2>8. QED
    BY <1>t, <1>1, <2>6, <2>7 DEF PushTail, Types, callVars, monitorVars, poolVars
<1>2. ASSUME NEW c \in Client, PushLink(c) PROVE Types' /\ Roles'
  <2>1. chain[c] \in Seq(Item) /\ chain[c] # <<>> /\ Len(chain[c]) \in 1..Cardinality(Item)
    <3>1. chain[c] \in Seq(Item) /\ chain[c] # <<>> /\ Len(chain[c]) \in 0..Cardinality(Item)
      BY <1>t, <1>b, <1>2, ChainLength DEF PushLink, Types, Roles, Fits
    <3>2. QED
      BY <1>b, <3>1
  <2>2. reg[c].next \in Item \cup {None}
    BY <1>t, <1>b DEF Types, Locals
  <2>3. Roles' /\ pc' \in [Thread -> AllPC] /\ reg' \in [Thread -> Locals]
    <3>1. chain' = chain
      BY <1>2 DEF PushLink, callVars
    <3>2. CASE Poke(c, Len(chain[c]), 0, "done")
      <4>1. 0 \in Floor..0 /\ c \in Thread /\ c \notin Worker /\ c # Monitor
        BY <1>b
      <4>2. \E l \in Locals : /\ Fits(c, "probe", l)
                              /\ pc' = [pc EXCEPT ![c] = "probe"] /\ reg' = [reg EXCEPT ![c] = l]
        BY <1>t, <2>1, <3>2, <4>1, PokeFits
      <4>3. QED
        BY <1>t, <3>1, <4>1, <4>2, OneMoves DEF AllPC, PokePC
    <3>3. CASE Goto(c, "done") /\ Forget(c)
      <4>1. NoLocals \in Locals /\ Fits(c, "done", NoLocals) /\ "done" \in AllPC
        BY <1>b, <1>l DEF Fits, ClientPC, PokePC, AllPC
      <4>2. QED
        BY <1>t, <1>b, <3>1, <3>3, <4>1, OneMoves DEF Goto, Forget, Keep
    <3>4. QED
      BY <1>2, <3>2, <3>3 DEF PushLink
  <2>4. dq_items_head' \in Item \cup {None, Mediator} /\ do_next' \in [Item -> Item \cup {None}]
    BY <1>t, <1>2, <2>2 DEF PushLink, Types
  <2>5. QED
    BY <1>t, <1>2, <2>3, <2>4 DEF PushLink, Types, callVars, monitorVars, poolVars
<1>3. ASSUME NEW t \in Thread, PokeProbe(t) PROVE Types' /\ Roles'
  <2>1. pc[t] \in PokePC /\ chain' = chain
    BY <1>3 DEF PokeProbe, PokePC, callVars
  <2>2. ASSUME Goto(t, "signal") /\ reg' = reg
        PROVE  Roles' /\ pc' \in [Thread -> AllPC] /\ reg' \in [Thread -> Locals]
    BY <1>t, <1>o, <1>3, <2>1, <2>2 DEF PokePC
  <2>8. Roles' /\ pc' \in [Thread -> AllPC] /\ reg' \in [Thread -> Locals]
    BY <1>r, <1>3, <2>1, <2>2 DEF PokeProbe
  <2>9. QED
    BY <1>t, <1>3, <2>8 DEF PokeProbe, Types, callVars, monitorVars, queueVars, poolVars
<1>4. ASSUME NEW t \in Thread, PokeSignal(t) PROVE Types' /\ Roles'
  <2>1. pc[t] \in PokePC /\ chain' = chain
    BY <1>4 DEF PokeSignal, PokePC, callVars
  <2>2. Goto(t, "post") \/ Goto(t, "pending")
    BY <1>4 DEF PokeSignal
  <2>8. Roles' /\ pc' \in [Thread -> AllPC] /\ reg' \in [Thread -> Locals]
    BY <1>t, <1>o, <1>4, <2>1, <2>2 DEF PokeSignal, PokePC
  <2>9. QED
    BY <1>t, <1>4, <2>8 DEF PokeSignal, Types, callVars, monitorVars, queueVars, poolVars
<1>5. ASSUME NEW t \in Thread, PokePost(t) PROVE Types' /\ Roles'
  <2>1. pc[t] \in PokePC /\ chain' = chain
    BY <1>5 DEF PokePost, PokePC, callVars
  <2>2. ASSUME reg[t].remaining # 1 /\ Goto(t, "signal") /\ Keep(t, [reg[t] EXCEPT !.remaining = @ - 1])
        PROVE  Roles' /\ pc' \in [Thread -> AllPC] /\ reg' \in [Thread -> Locals]
    <3> DEFINE l == [reg[t] EXCEPT !.remaining = @ - 1]
    <3>1. reg[t] \in Locals /\ reg[t].remaining >= 1 /\ reg[t].remaining \in 0..Cardinality(Item)
      BY <1>t, <2>1 DEF Types, Roles, Fits, Locals
    <3>2. reg[t].remaining - 1 \in 0..Cardinality(Item) /\ reg[t].remaining - 1 >= 1
      BY <1>b, <2>2, <3>1
    <3>3. l \in Locals /\ l.remaining >= 1 /\ l.back = reg[t].back /\ l.item = reg[t].item
      BY <3>1, <3>2 DEF Locals
    <3>4. "signal" \in AllPC /\ Fits(t, "signal", l)
      BY <1>t, <2>1, <3>3, PokeOn DEF PokePC
    <3>5. QED
      BY <1>t, <2>1, <2>2, <3>3, <3>4, OneMoves DEF Goto, Keep
  <2>8. Roles' /\ pc' \in [Thread -> AllPC] /\ reg' \in [Thread -> Locals]
    BY <1>r, <1>5, <2>1, <2>2 DEF PokePost
  <2>9. QED
    BY <1>t, <1>5, <2>8 DEF PokePost, Types, callVars, monitorVars, queueVars, poolVars
<1>6. ASSUME NEW t \in Thread, PokePending(t) PROVE Types' /\ Roles'
  <2>1. pc[t] \in PokePC /\ chain' = chain
    BY <1>6 DEF PokePending, PokePC, callVars
  <2>2. ASSUME Goto(t, "pool") /\ reg' = reg
        PROVE  Roles' /\ pc' \in [Thread -> AllPC] /\ reg' \in [Thread -> Locals]
    BY <1>t, <1>o, <1>6, <2>1, <2>2 DEF PokePC
  <2>8. Roles' /\ pc' \in [Thread -> AllPC] /\ reg' \in [Thread -> Locals]
    BY <1>r, <1>6, <2>1, <2>2 DEF PokePending
  <2>3. dgq_pending' \in Int
    <3>1. reg[t].remaining \in Int
      BY <1>t DEF Types, Locals
    <3>2. QED
      BY <1>t, <1>6, <3>1 DEF PokePending, Types
  <2>9. QED
    BY <1>t, <1>6, <2>8, <2>3 DEF PokePending, Types, callVars, monitorVars, queueVars
<1>7. ASSUME NEW t \in Thread, PokePool(t) PROVE Types' /\ Roles'
  <2>1. pc[t] \in PokePC /\ chain' = chain
    BY <1>7 DEF PokePool, PokePC, callVars
  <2>8. Roles' /\ pc' \in [Thread -> AllPC] /\ reg' \in [Thread -> Locals]
    BY <1>z, <1>7, <2>1 DEF PokePool
  <2>9. QED
    BY <1>t, <1>7, <2>8 DEF PokePool, Types, callVars, monitorVars, queueVars, poolVars
<1>8. ASSUME NEW t \in Thread, PokeReduce(t) PROVE Types' /\ Roles'
  <2>1. pc[t] \in PokePC /\ chain' = chain
    BY <1>8 DEF PokeReduce, PokePC, callVars
  <2> DEFINE can == CanRequest(t, reg[t].t_count)
             l == [reg[t] EXCEPT !.remaining = can]
  <2>2. /\ reg[t] \in Locals /\ reg[t].remaining \in 0..Cardinality(Item)
        /\ reg[t].t_count \in Int /\ reg[t].floor \in Int
        /\ can = Allowed(reg[t]) /\ reg[t].remaining > can
    <3>1. reg[t] \in Locals /\ Fits(t, "reduce", reg[t])
      BY <1>t, <1>8 DEF PokeReduce, Types, Roles
    <3>2. QED
      BY <1>b, <3>1 DEF Locals, Fits, PokePC, Allowed, CanRequest
  <2>3. can \in 0..Cardinality(Item)
    BY <1>b, <2>2 DEF Allowed
  <2>4. ASSUME can # 0 /\ Goto(t, "take") /\ Keep(t, l)
        PROVE  Roles' /\ pc' \in [Thread -> AllPC] /\ reg' \in [Thread -> Locals]
    <3>1. l \in Locals /\ l.remaining = can /\ l.back = reg[t].back /\ l.item = reg[t].item
          /\ l.t_count = reg[t].t_count /\ l.floor = reg[t].floor
      <4> HIDE DEF can
      <4>1. QED
        BY <2>2, <2>3 DEF Locals
    <3>2. Allowed(l) = can /\ can >= 1
      BY <1>b, <2>2, <2>3, <2>4, <3>1 DEF Allowed
    <3> HIDE DEF can, l
    <3>3. "take" \in AllPC /\ Fits(t, "take", l)
      BY <1>t, <1>b, <2>1, <2>3, <3>1, <3>2, PokeOn DEF PokePC
    <3>4. QED
      BY <1>t, <2>1, <2>4, <3>1, <3>3, OneMoves DEF Goto, Keep
  <2>8. Roles' /\ pc' \in [Thread -> AllPC] /\ reg' \in [Thread -> Locals]
    BY <1>r, <1>8, <2>1, <2>4 DEF PokeReduce
  <2>5. dgq_pending' \in Int
    <3> HIDE DEF can
    <3>1. dgq_pending' = dgq_pending - (reg[t].remaining - can)
      BY <1>8 DEF PokeReduce, can
    <3>2. QED
      BY <1>t, <1>b, <2>2, <2>3, <3>1 DEF Types
  <2>9. QED
    BY <1>t, <1>8, <2>8, <2>5 DEF PokeReduce, Types, callVars, monitorVars, queueVars
<1>9. ASSUME NEW t \in Thread, PokeTake(t) PROVE Types' /\ Roles'
  <2>1. pc[t] \in PokePC /\ chain' = chain
    BY <1>9 DEF PokeTake, PokePC, callVars
  <2>2. /\ reg[t].remaining \in 0..Cardinality(Item) /\ reg[t].remaining >= 1
        /\ reg[t].t_count \in Int /\ reg[t].floor \in Int /\ reg[t].floor >= Floor
        /\ reg[t].remaining <= Allowed(reg[t])
    <3>1. reg[t] \in Locals /\ Fits(t, "take", reg[t])
      BY <1>t, <1>9 DEF PokeTake, Types, Roles
    <3>2. QED
      BY <1>b, <3>1 DEF Locals, Fits, PokePC
  <2>3. CASE dgq_thread_pool_size' = reg[t].t_count - reg[t].remaining /\ Goto(t, "create") /\ reg' = reg
    <3>1. Roles' /\ pc' \in [Thread -> AllPC] /\ reg' \in [Thread -> Locals]
      BY <1>t, <1>o, <2>1, <2>3 DEF PokePC
    <3>2. dgq_thread_pool_size' \in Int /\ dgq_thread_pool_size' >= Floor
      BY <1>b, <2>2, <2>3 DEF Allowed
    <3>3. QED
      BY <1>t, <1>9, <3>1, <3>2 DEF PokeTake, Types, callVars, monitorVars, queueVars
  <2>4. CASE PokeSizes(t, dgq_thread_pool_size) /\ dgq_thread_pool_size' = dgq_thread_pool_size
    <3>1. Roles' /\ pc' \in [Thread -> AllPC] /\ reg' \in [Thread -> Locals]
      BY <1>z, <2>1, <2>4
    <3>2. QED
      BY <1>t, <1>9, <2>4, <3>1 DEF PokeTake, Types, callVars, monitorVars, queueVars
  <2>9. QED
    BY <1>9, <2>3, <2>4 DEF PokeTake
<1>10. ASSUME NEW t \in Thread, PokeCreate(t) PROVE Types' /\ Roles'
  <2>1. pc[t] \in PokePC /\ chain' = chain
    BY <1>10 DEF PokeCreate, PokePC, callVars
  <2> DEFINE last == reg[t].remaining = 1
             p == IF last THEN reg[t].back ELSE "create"
             l == IF last THEN [NoLocals EXCEPT !.item = reg[t].item]
                  ELSE [reg[t] EXCEPT !.remaining = @ - 1]
  <2>2. PICK w \in Worker : pc[w] = "none" /\ pc' = [pc EXCEPT ![w] = "born", ![t] = p]
    BY <1>10 DEF PokeCreate
  <2>3. w \in Thread /\ w # t /\ reg' = [reg EXCEPT ![t] = l]
    BY <1>b, <1>10, <2>2 DEF PokeCreate, Keep
  <2>4. p \in AllPC /\ l \in Locals /\ Fits(t, p, l)
    <3>1. CASE last
      BY <1>t, <2>1, <3>1, ReturnFits
    <3>2. CASE ~last
      <4> DEFINE m == [reg[t] EXCEPT !.remaining = @ - 1]
      <4>1. reg[t] \in Locals /\ reg[t].remaining >= 1 /\ reg[t].remaining \in 0..Cardinality(Item)
        BY <1>t, <2>1 DEF Types, Roles, Fits, Locals
      <4>2. reg[t].remaining - 1 \in 0..Cardinality(Item) /\ reg[t].remaining - 1 >= 1
        BY <1>b, <3>2, <4>1
      <4>3. m \in Locals /\ m.remaining >= 1 /\ m.back = reg[t].back /\ m.item = reg[t].item
        BY <4>1, <4>2 DEF Locals
      <4>4. "create" \in AllPC /\ Fits(t, "create", m)
        BY <1>t, <2>1, <4>3, PokeOn DEF PokePC
      <4>5. QED
        BY <3>2, <4>3, <4>4
    <3>3. QED
      BY <3>1, <3>2
  <2> HIDE DEF p, l
  <2>5. /\ pc'[t] = p /\ pc'[w] = "born" /\ \A u \in Thread \ {t, w} : pc'[u] = pc[u]
        /\ reg'[t] = l /\ \A u \in Thread \ {t} : reg'[u] = reg[u]
        /\ pc' \in [Thread -> AllPC] /\ reg' \in [Thread -> Locals]
    BY <1>t, <1>b, <2>2, <2>3, <2>4 DEF Types, AllPC, WorkerPC
  <2>6. ASSUME NEW u \in Thread PROVE Fits(u, pc[u], reg[u])'
    <3>1. CASE u = t
      BY <2>1, <2>4, <2>5, <3>1 DEF Fits
    <3>2. CASE u = w
      <4>1. Fits(w, "none", reg[w])
        BY <1>t, <2>2, <2>3 DEF Roles
      <4>2. Fits(w, "born", reg[w])
        BY <1>b, <2>2, <4>1 DEF Fits, WorkerPC, PokePC, Owned
      <4>3. QED
        BY <2>1, <2>3, <2>5, <3>2, <4>2 DEF Fits
    <3>3. CASE u # t /\ u # w
      <4>1. Fits(u, pc[u], reg[u]) /\ pc'[u] = pc[u] /\ reg'[u] = reg[u]
        BY <1>t, <2>5, <3>3 DEF Roles
      <4>2. QED
        BY <2>1, <4>1 DEF Fits
    <3>4. QED
      BY <3>1, <3>2, <3>3
  <2>8. Roles' /\ pc' \in [Thread -> AllPC] /\ reg' \in [Thread -> Locals]
    BY <2>5, <2>6 DEF Roles
  <2>9. QED
    BY <1>t, <1>10, <2>8 DEF PokeCreate, Types, callVars, monitorVars, queueVars, poolVars
<1>11. ASSUME NEW w \in Worker, DrainStart(w) PROVE Types' /\ Roles'
  <2> DEFINE l == [NoLocals EXCEPT !.item = IF dq_items_head = Mediator THEN None ELSE dq_items_head]
             p == CASE dq_items_head = None -> "unhead"
                    [] dq_items_head = Mediator -> "lost"
                    [] OTHER -> "next"
  <2>1. /\ pc' = [pc EXCEPT ![w] = p] /\ reg' = [reg EXCEPT ![w] = l] /\ dq_items_head' = Mediator
        /\ chain' = chain
    BY <1>11 DEF DrainStart, Goto, Keep, callVars
  <2>2. l = Call(IF dq_items_head = Mediator THEN None ELSE dq_items_head, 0, 0, "done")
    BY CallIs
  <2>3. l \in Locals /\ l.item = IF dq_items_head = Mediator THEN None ELSE dq_items_head
    <3> DEFINE i == IF dq_items_head = Mediator THEN None ELSE dq_items_head
    <3>1. i \in Item \cup {None, Mediator} /\ 0 \in 0..Cardinality(Item) /\ 0 \in Floor..0
      BY <1>t, <1>b DEF Types
    <3>2. l = Call(i, 0, 0, "done")
      BY <2>2
    <3> HIDE DEF i, l
    <3>3. l \in Locals
      BY <3>1, <3>2, CallType
    <3>4. l.item = i
      BY <3>2 DEF Call
    <3>5. QED
      BY <3>3, <3>4 DEF i
  <2>4. p \in {"unhead", "lost", "next"} /\ (p = "next" => l.item \in Item)
    BY <1>t, <2>3 DEF Types
  <2> HIDE DEF l, p
  <2>5. p \in AllPC /\ Fits(w, p, l)
    BY <1>b, <2>4 DEF Fits, AllPC, WorkerPC, PokePC, Owned
  <2>6. Roles' /\ pc' \in [Thread -> AllPC] /\ reg' \in [Thread -> Locals]
    BY <1>t, <1>b, <2>1, <2>3, <2>5, OneMoves
  <2>7. QED
    BY <1>t, <1>11, <2>1, <2>6 DEF DrainStart, Types, callVars, monitorVars, poolVars
<1>12. ASSUME NEW w \in Worker, DrainUnhead(w) PROVE Types' /\ Roles'
  <2>1. (Goto(w, "probe tail") \/ Goto(w, "drain")) /\ reg' = reg /\ chain' = chain
    BY <1>12 DEF DrainUnhead, callVars
  <2>2. Fits(w, pc[w], reg[w]) /\ Fits(w, "probe tail", reg[w]) /\ Fits(w, "drain", reg[w])
    BY <1>t, <1>b, <1>12 DEF DrainUnhead, Roles, Fits, WorkerPC, PokePC, Owned
  <2>3. Roles' /\ pc' \in [Thread -> AllPC] /\ reg' \in [Thread -> Locals]
    BY <1>t, <1>b, <2>1, <2>2, OneGoes DEF Goto, AllPC, WorkerPC
  <2>4. QED
    BY <1>t, <1>12, <2>3 DEF DrainUnhead, Types, callVars, monitorVars, queueVars, poolVars, mediatorVars
<1>13. ASSUME NEW w \in Worker, DrainProbeTail(w) PROVE Types' /\ Roles'
  <2>1. (Goto(w, "park") \/ Goto(w, "load head")) /\ reg' = reg /\ chain' = chain
    BY <1>13 DEF DrainProbeTail, callVars
  <2>2. Fits(w, pc[w], reg[w]) /\ Fits(w, "park", reg[w]) /\ Fits(w, "load head", reg[w])
    BY <1>t, <1>b, <1>13 DEF DrainProbeTail, Roles, Fits, WorkerPC, PokePC, Owned
  <2>3. Roles' /\ pc' \in [Thread -> AllPC] /\ reg' \in [Thread -> Locals]
    BY <1>t, <1>b, <2>1, <2>2, OneGoes DEF Goto, AllPC, WorkerPC
  <2>4. QED
    BY <1>t, <1>13, <2>3 DEF DrainProbeTail, Types, callVars, monitorVars, queueVars, poolVars, mediatorVars
<1>14. ASSUME NEW w \in Worker, DrainNext(w) \/ DrainAwaitNext(w) PROVE Types' /\ Roles'
  <2> DEFINE n == do_next[reg[w].item]
             l == [reg[w] EXCEPT !.next = n]
  <2>1. Fits(w, pc[w], reg[w]) /\ reg[w] \in Locals /\ pc[w] \in {"next", "await next"}
    BY <1>t, <1>b, <1>14 DEF DrainNext, DrainAwaitNext, Types, Roles
  <2>2. reg[w].item \in Item /\ n \in Item \cup {None}
    BY <1>t, <2>1 DEF Fits, Owned, Types
  <2>3. l \in Locals /\ l.item = reg[w].item
    BY <2>1, <2>2 DEF Locals
  <2>4. reg' = [reg EXCEPT ![w] = l] /\ chain' = chain
    BY <1>14 DEF DrainNext, DrainAwaitNext, Keep, callVars
  <2>5. PICK p \in {"unlink", "rehead"} : pc' = [pc EXCEPT ![w] = p]
    BY <1>14 DEF DrainNext, DrainAwaitNext, Goto
  <2> HIDE DEF l
  <2>6. p \in AllPC /\ Fits(w, p, l)
    BY <1>b, <2>2, <2>3 DEF Fits, AllPC, WorkerPC, PokePC, Owned
  <2>7. Roles' /\ pc' \in [Thread -> AllPC] /\ reg' \in [Thread -> Locals]
    BY <1>t, <1>b, <2>3, <2>4, <2>5, <2>6, OneMoves
  <2>8. QED
    BY <1>t, <1>14, <2>7 DEF DrainNext, DrainAwaitNext, Types, callVars, monitorVars, poolVars, queueVars
<1>15. ASSUME NEW w \in Worker, DrainUnlink(w) PROVE Types' /\ Roles'
  <2>1. (Goto(w, "untail")) /\ reg' = reg /\ chain' = chain
    BY <1>15 DEF DrainUnlink, callVars
  <2>2. Fits(w, pc[w], reg[w]) /\ Fits(w, "untail", reg[w])
    BY <1>t, <1>b, <1>15 DEF DrainUnlink, Roles, Fits, WorkerPC, PokePC, Owned
  <2>3. Roles' /\ pc' \in [Thread -> AllPC] /\ reg' \in [Thread -> Locals]
    BY <1>t, <1>b, <2>1, <2>2, OneGoes DEF Goto, AllPC, WorkerPC
  <2>4. QED
    BY <1>t, <1>15, <2>3 DEF DrainUnlink, Types, callVars, monitorVars, queueVars, poolVars, mediatorVars
<1>16. ASSUME NEW w \in Worker, DrainUntail(w) PROVE Types' /\ Roles'
  <2>1. (Goto(w, "invoke") \/ Goto(w, "await next")) /\ reg' = reg /\ chain' = chain
    BY <1>16 DEF DrainUntail, callVars
  <2>2. Fits(w, pc[w], reg[w]) /\ Fits(w, "invoke", reg[w]) /\ Fits(w, "await next", reg[w])
    BY <1>t, <1>b, <1>16 DEF DrainUntail, Roles, Fits, WorkerPC, PokePC, Owned
  <2>3. Roles' /\ pc' \in [Thread -> AllPC] /\ reg' \in [Thread -> Locals]
    BY <1>t, <1>b, <2>1, <2>2, OneGoes DEF Goto, AllPC, WorkerPC
  <2>4. QED
    BY <1>t, <1>16, <2>3 DEF DrainUntail, Types, callVars, monitorVars, queueVars, poolVars, mediatorVars
<1>17. ASSUME NEW w \in Worker, DrainRehead(w) PROVE Types' /\ Roles'
  <2>1. reg[w].item \in Item /\ reg[w].next \in Item \cup {None} /\ w \in Thread /\ w \notin Client
        /\ w # Monitor /\ 1 \in 1..Cardinality(Item) /\ 0 \in Floor..0 /\ "probe" \in AllPC
    <3>1. Fits(w, "rehead", reg[w]) /\ reg[w] \in Locals
      BY <1>t, <1>b, <1>17 DEF DrainRehead, Types, Roles
    <3>2. reg[w].item \in Item /\ reg[w].next \in Item \cup {None}
      BY <3>1 DEF Fits, Locals, Owned
    <3>3. "probe" \in AllPC
      BY DEF PokePC, AllPC
    <3>4. QED
      BY <1>b, <3>2, <3>3
  <2>2. Poke(w, 1, 0, "invoke") /\ chain' = chain /\ dq_items_head' = reg[w].next
    BY <1>17 DEF DrainRehead, callVars
  <2>3. \E l \in Locals : /\ Fits(w, "probe", l)
                          /\ pc' = [pc EXCEPT ![w] = "probe"] /\ reg' = [reg EXCEPT ![w] = l]
    BY <1>t, <2>1, <2>2, PokeFits
  <2>4. Roles' /\ pc' \in [Thread -> AllPC] /\ reg' \in [Thread -> Locals]
    BY <1>t, <2>1, <2>2, <2>3, OneMoves
  <2>5. QED
    BY <1>t, <1>17, <2>1, <2>2, <2>4 DEF DrainRehead, Types, callVars, monitorVars, poolVars
<1>18. ASSUME NEW w \in Worker, DrainLoadHead(w) PROVE Types' /\ Roles'
  <2> DEFINE l == [NoLocals EXCEPT !.item = dq_items_head]
  <2>1. dq_items_head \in Item \cup {None, Mediator} /\ 0 \in 0..Cardinality(Item) /\ 0 \in Floor..0
    BY <1>t, <1>b DEF Types
  <2>2. l \in Locals
    BY <2>1, CallIs, CallType
  <2>3. PICK p \in {"load tail", "load tail backoff"} : pc' = [pc EXCEPT ![w] = p]
    BY <1>18 DEF DrainLoadHead, Goto
  <2> HIDE DEF l
  <2>4. p \in AllPC /\ Fits(w, p, l)
    BY <1>b DEF Fits, AllPC, WorkerPC, PokePC, Owned
  <2>5. reg' = [reg EXCEPT ![w] = l] /\ chain' = chain
    BY <1>18 DEF DrainLoadHead, Keep, callVars, l
  <2>6. Roles' /\ pc' \in [Thread -> AllPC] /\ reg' \in [Thread -> Locals]
    BY <1>t, <1>b, <2>2, <2>3, <2>4, <2>5, OneMoves
  <2>7. QED
    BY <1>t, <1>18, <2>6 DEF DrainLoadHead, Types, callVars, monitorVars, poolVars, queueVars
<1>19. ASSUME NEW w \in Worker, DrainLost(w) PROVE Types' /\ Roles'
  <2>1. chain' = chain /\ w \in Thread /\ w \notin Client /\ w # Monitor
        /\ 1 \in 1..Cardinality(Item) /\ 0 \in Floor..0
    <3>1. chain' = chain
      BY <1>19 DEF DrainLost, Contend, callVars
    <3>2. 1 \in 1..Cardinality(Item) /\ 0 \in Floor..0
      BY <1>b
    <3>3. QED
      BY <1>b, <3>1, <3>2
  <2>2. dgq_pending' \in Int
    <3>1. dgq_pending' = dgq_pending \/ dgq_pending' = dgq_pending + 1 \/ dgq_pending' = dgq_pending - 1
      BY <1>19 DEF DrainLost, Contend
    <3>2. QED
      BY <1>t, <3>1 DEF Types
  <2>3. ASSUME NEW p \in {"drain", "park", "lost backoff", "load head backoff"}, Goto(w, p), Forget(w)
        PROVE  Roles' /\ pc' \in [Thread -> AllPC] /\ reg' \in [Thread -> Locals]
    <3>1. Fits(w, p, NoLocals) /\ p \in AllPC
      BY <1>b DEF Fits, WorkerPC, PokePC, Owned, AllPC
    <3>2. pc' = [pc EXCEPT ![w] = p] /\ reg' = [reg EXCEPT ![w] = NoLocals]
      BY <2>3 DEF Goto, Forget, Keep
    <3>3. QED
      BY <1>t, <1>l, <2>1, <3>1, <3>2, OneMoves
  <2>4. ASSUME Poke(w, 1, 0, "park")
        PROVE  Roles' /\ pc' \in [Thread -> AllPC] /\ reg' \in [Thread -> Locals]
    <3>1. \E l \in Locals : /\ Fits(w, "probe", l)
                            /\ pc' = [pc EXCEPT ![w] = "probe"] /\ reg' = [reg EXCEPT ![w] = l]
      BY <1>t, <2>1, <2>4, PokeFits
    <3>2. "probe" \in AllPC
      BY DEF AllPC, PokePC
    <3>3. QED
      BY <1>t, <2>1, <3>1, <3>2, OneMoves
  <2>5. \/ \E p \in {"drain", "park", "lost backoff", "load head backoff"} : Goto(w, p) /\ Forget(w)
        \/ Poke(w, 1, 0, "park")
    BY <1>19 DEF DrainLost, Contend, ContentionEnds
  <2>6. Roles' /\ pc' \in [Thread -> AllPC] /\ reg' \in [Thread -> Locals]
    BY <2>3, <2>4, <2>5
  <2>7. QED
    BY <1>t, <1>19, <2>2, <2>6 DEF DrainLost, Contend, Types, callVars, monitorVars, queueVars
<1>20. ASSUME NEW w \in Worker, DrainLoadTail(w) PROVE Types' /\ Roles'
  <2>1. chain' = chain /\ w \in Thread /\ w \notin Client /\ w # Monitor
        /\ 1 \in 1..Cardinality(Item) /\ 0 \in Floor..0
    <3>1. chain' = chain
      BY <1>20 DEF DrainLoadTail, Contend, callVars
    <3>2. 1 \in 1..Cardinality(Item) /\ 0 \in Floor..0
      BY <1>b
    <3>3. QED
      BY <1>b, <3>1, <3>2
  <2>2. dgq_pending' \in Int
    <3>1. dgq_pending' = dgq_pending \/ dgq_pending' = dgq_pending + 1 \/ dgq_pending' = dgq_pending - 1
      BY <1>20 DEF DrainLoadTail, Contend
    <3>2. QED
      BY <1>t, <3>1 DEF Types
  <2>3. ASSUME NEW p \in {"drain", "park", "lost backoff", "load head backoff"}, Goto(w, p), Forget(w)
        PROVE  Roles' /\ pc' \in [Thread -> AllPC] /\ reg' \in [Thread -> Locals]
    <3>1. Fits(w, p, NoLocals) /\ p \in AllPC
      BY <1>b DEF Fits, WorkerPC, PokePC, Owned, AllPC
    <3>2. pc' = [pc EXCEPT ![w] = p] /\ reg' = [reg EXCEPT ![w] = NoLocals]
      BY <2>3 DEF Goto, Forget, Keep
    <3>3. QED
      BY <1>t, <1>l, <2>1, <3>1, <3>2, OneMoves
  <2>4. ASSUME Poke(w, 1, 0, "park")
        PROVE  Roles' /\ pc' \in [Thread -> AllPC] /\ reg' \in [Thread -> Locals]
    <3>1. \E l \in Locals : /\ Fits(w, "probe", l)
                            /\ pc' = [pc EXCEPT ![w] = "probe"] /\ reg' = [reg EXCEPT ![w] = l]
      BY <1>t, <2>1, <2>4, PokeFits
    <3>2. "probe" \in AllPC
      BY DEF AllPC, PokePC
    <3>3. QED
      BY <1>t, <2>1, <3>1, <3>2, OneMoves
  <2>5. \/ \E p \in {"drain", "park", "lost backoff", "load head backoff"} : Goto(w, p) /\ Forget(w)
        \/ Poke(w, 1, 0, "park")
    BY <1>20 DEF DrainLoadTail, Contend, ContentionEnds
  <2>6. Roles' /\ pc' \in [Thread -> AllPC] /\ reg' \in [Thread -> Locals]
    BY <2>3, <2>4, <2>5
  <2>7. QED
    BY <1>t, <1>20, <2>2, <2>6 DEF DrainLoadTail, Contend, Types, callVars, monitorVars, queueVars
<1>21. ASSUME NEW w \in Worker, WorkerBorn(w) PROVE Types' /\ Roles'
  <2>1. (Goto(w, "drain") \/ Goto(w, "register")) /\ reg' = reg /\ chain' = chain
    BY <1>21 DEF WorkerBorn, callVars
  <2>2. Fits(w, pc[w], reg[w]) /\ Fits(w, "drain", reg[w]) /\ Fits(w, "register", reg[w])
    BY <1>t, <1>b, <1>21 DEF WorkerBorn, Roles, Fits, WorkerPC, PokePC, Owned
  <2>3. Roles' /\ pc' \in [Thread -> AllPC] /\ reg' \in [Thread -> Locals]
    BY <1>t, <1>b, <2>1, <2>2, OneGoes DEF Goto, AllPC, WorkerPC
  <2>4. QED
    BY <1>t, <1>21, <2>3 DEF WorkerBorn, Types, callVars, monitorVars, queueVars, poolVars, mediatorVars
<1>22. ASSUME NEW w \in Worker, WorkerRegister(w) PROVE Types' /\ Roles'
  <2>1. (Goto(w, "drain")) /\ reg' = reg /\ chain' = chain
    BY <1>22 DEF WorkerRegister, callVars
  <2>2. Fits(w, pc[w], reg[w]) /\ Fits(w, "drain", reg[w])
    BY <1>t, <1>b, <1>22 DEF WorkerRegister, Roles, Fits, WorkerPC, PokePC, Owned
  <2>3. Roles' /\ pc' \in [Thread -> AllPC] /\ reg' \in [Thread -> Locals]
    BY <1>t, <1>b, <2>1, <2>2, OneGoes DEF Goto, AllPC, WorkerPC
  <2>4. QED
    BY <1>t, <1>22, <2>3 DEF WorkerRegister, Types, callVars, monitorVars, queueVars, poolVars, mediatorVars
<1>23. ASSUME NEW w \in Worker, WorkerInvoke(w) PROVE Types' /\ Roles'
  <2>1. reg[w].item \in Item /\ NoLocals \in Locals /\ Fits(w, "drain", NoLocals) /\ "drain" \in AllPC
    BY <1>t, <1>b, <1>l, <1>23 DEF WorkerInvoke, Roles, Fits, Owned, PokePC, AllPC, WorkerPC
  <2>2. pc' = [pc EXCEPT ![w] = "drain"] /\ reg' = [reg EXCEPT ![w] = NoLocals] /\ chain' = chain
    BY <1>23 DEF WorkerInvoke, Goto, Forget, Keep, callVars
  <2>3. Roles' /\ pc' \in [Thread -> AllPC] /\ reg' \in [Thread -> Locals]
    BY <1>t, <1>b, <2>1, <2>2, OneMoves
  <2>4. QED
    BY <1>t, <1>23, <2>1, <2>3 DEF WorkerInvoke, Types, callVars, monitorVars, poolVars, queueVars
<1>24. ASSUME NEW w \in Worker, WorkerPark(w) PROVE Types' /\ Roles'
  <2>1. (Goto(w, "drain") \/ Goto(w, "parked")) /\ reg' = reg /\ chain' = chain
    BY <1>24 DEF WorkerPark, callVars
  <2>2. Fits(w, pc[w], reg[w]) /\ Fits(w, "drain", reg[w]) /\ Fits(w, "parked", reg[w])
    BY <1>t, <1>b, <1>24 DEF WorkerPark, Roles, Fits, WorkerPC, PokePC, Owned
  <2>3. Roles' /\ pc' \in [Thread -> AllPC] /\ reg' \in [Thread -> Locals]
    BY <1>t, <1>b, <2>1, <2>2, OneGoes DEF Goto, AllPC, WorkerPC
  <2>4. QED
    BY <1>t, <1>24, <2>3 DEF WorkerPark, Types, callVars, monitorVars, queueVars, poolVars, mediatorVars
<1>25. ASSUME NEW w \in Worker, WorkerParked(w) PROVE Types' /\ Roles'
  <2>1. /\ reg' = reg /\ chain' = chain
        /\ \/ pc' = pc \/ Goto(w, "drain") \/ Goto(w, "leave") \/ Goto(w, "unregister")
    BY <1>25 DEF WorkerParked, callVars
  <2>2. Fits(w, "drain", reg[w]) /\ Fits(w, "leave", reg[w]) /\ Fits(w, "unregister", reg[w])
    BY <1>t, <1>b, <1>25 DEF Roles, Fits, WorkerPC, PokePC, Owned
  <2>3. Roles' /\ pc' \in [Thread -> AllPC] /\ reg' \in [Thread -> Locals]
    <3>1. CASE pc' = pc
      BY <1>t, <2>1, <3>1 DEF Types, Roles, Fits
    <3>2. CASE pc' # pc
      BY <1>t, <1>b, <2>1, <2>2, <3>2, OneGoes DEF Goto, AllPC, WorkerPC
    <3>3. QED
      BY <3>1, <3>2
  <2>4. QED
    BY <1>t, <1>25, <2>3 DEF WorkerParked, Types, callVars, monitorVars, poolVars, queueVars
<1>26. ASSUME NEW w \in Worker, WorkerUnregister(w) PROVE Types' /\ Roles'
  <2>1. (Goto(w, "leave")) /\ reg' = reg /\ chain' = chain
    BY <1>26 DEF WorkerUnregister, callVars
  <2>2. Fits(w, pc[w], reg[w]) /\ Fits(w, "leave", reg[w])
    BY <1>t, <1>b, <1>26 DEF WorkerUnregister, Roles, Fits, WorkerPC, PokePC, Owned
  <2>3. Roles' /\ pc' \in [Thread -> AllPC] /\ reg' \in [Thread -> Locals]
    BY <1>t, <1>b, <2>1, <2>2, OneGoes DEF Goto, AllPC, WorkerPC
  <2>4. QED
    BY <1>t, <1>26, <2>3 DEF WorkerUnregister, Types, callVars, monitorVars, queueVars, poolVars, mediatorVars
<1>27. ASSUME NEW w \in Worker, WorkerLeave(w) PROVE Types' /\ Roles'
  <2>1. w \in Thread /\ w \notin Client /\ w # Monitor
        /\ 1 \in 1..Cardinality(Item) /\ 0 \in Floor..0 /\ "probe" \in AllPC
    BY <1>b DEF PokePC, AllPC
  <2>2. Poke(w, 1, 0, "none") /\ chain' = chain
    BY <1>27 DEF WorkerLeave, callVars
  <2>3. \E l \in Locals : /\ Fits(w, "probe", l)
                          /\ pc' = [pc EXCEPT ![w] = "probe"] /\ reg' = [reg EXCEPT ![w] = l]
    BY <1>t, <2>1, <2>2, PokeFits
  <2>4. Roles' /\ pc' \in [Thread -> AllPC] /\ reg' \in [Thread -> Locals]
    BY <1>t, <2>1, <2>2, <2>3, OneMoves
  <2>5. QED
    BY <1>t, <1>b, <1>27, <2>4 DEF WorkerLeave, Types, callVars, monitorVars, queueVars
<1>28. ASSUME MonitorTick PROVE Types' /\ Roles'
  <2>1. PICK f \in Floor..0 : Poke(Monitor, 1, f, "tick")
    BY <1>b, <1>28 DEF MonitorTick
  <2>2. 1 \in 1..Cardinality(Item) /\ "probe" \in AllPC /\ chain' = chain
    BY <1>b, <1>28 DEF PokePC, AllPC, MonitorTick, callVars
  <2>3. \E l \in Locals : /\ Fits(Monitor, "probe", l)
                          /\ pc' = [pc EXCEPT ![Monitor] = "probe"] /\ reg' = [reg EXCEPT ![Monitor] = l]
    BY <1>t, <1>b, <2>1, <2>2, PokeFits
  <2>4. Roles' /\ pc' \in [Thread -> AllPC] /\ reg' \in [Thread -> Locals]
    BY <1>t, <1>b, <2>2, <2>3, OneMoves
  <2>5. QED
    BY <1>t, <1>28, <2>4 DEF MonitorTick, Types, callVars, monitorVars, poolVars, queueVars
<1>29. CASE UNCHANGED vars
  BY <1>t, <1>29 DEF vars, callVars, queueVars, poolVars, monitorVars, Types, Roles, Fits
<1>30. QED
  BY <1>1, <1>2, <1>3, <1>4, <1>5, <1>6, <1>7, <1>8, <1>9, <1>10, <1>11, <1>12, <1>13, <1>14,
     <1>15, <1>16, <1>17, <1>18, <1>19, <1>20, <1>21, <1>22, <1>23, <1>24, <1>25, <1>26, <1>27,
     <1>28, <1>29 DEF Next, Step, PokeStep, WorkerStep, DrainStep

-----------------------------------------------------------------------------
(* The accounts                                                              *)

\* What one thread adds to the pending count, and what it holds of the pool.
Asks(p, l) == IF p \in {"pool", "reduce", "take", "create"} THEN l.remaining ELSE 0
Waits(t, p) == IF t \in Worker /\ p \in {"born"} \cup BackingOff THEN 1 ELSE 0
Lives(t, p, l) == IF t \in Worker /\ p # "none" /\ ~(l.back = "none" /\ p \in PokePC) THEN 1 ELSE 0
Makes(p, l) == IF p = "create" THEN l.remaining ELSE 0
DueBy(t, p, l) == Asks(p, l) + Waits(t, p)
TakenBy(t, p, l) == Lives(t, p, l) + Makes(p, l)

\* The two counts, for threads at q with the locals r.
Asked(q, r) == [t \in Thread |-> Asks(q[t], r[t])]
Made(q, r) == [t \in Thread |-> Makes(q[t], r[t])]
Waiting(q) == {w \in Worker : q[w] \in {"born"} \cup BackingOff}
Living(q, r) == {w \in Worker : q[w] # "none" /\ ~(r[w].back = "none" /\ q[w] \in PokePC)}
Due(q, r) == Total(Asked(q, r)) + Cardinality(Waiting(q))
Taken(q, r) == Cardinality(Living(q, r)) + Total(Made(q, r))

\* A set of threads changes by at most one.
LEMMA OneChanges ==
  ASSUME NEW S, NEW R, NEW t, S \subseteq Thread, R \subseteq Thread, S \ {t} = R \ {t}
  PROVE  /\ Cardinality(S) \in Nat
         /\ Cardinality(R) = Cardinality(S) - (IF t \in S THEN 1 ELSE 0) + (IF t \in R THEN 1 ELSE 0)
<1>1. Cardinality(S) \in Nat /\ Cardinality(R) \in Nat
  BY ThreadsFinite
<1>2. CASE (t \in S) = (t \in R)
  <2>1. S = R
    BY <1>2
  <2>2. QED
    BY <1>1, <2>1
<1>3. CASE t \in S /\ t \notin R
  <2>1. R = S \ {t}
    BY <1>3
  <2>2. Cardinality(R) = Cardinality(S) - 1
    BY <1>3, <2>1, OneLess
  <2>3. QED
    BY <1>1, <1>3, <2>2
<1>4. CASE t \notin S /\ t \in R
  <2>1. R = S \cup {t}
    BY <1>4
  <2>2. Cardinality(R) = Cardinality(S) + 1
    BY <1>4, <2>1, OneMore
  <2>3. QED
    BY <1>1, <1>4, <2>2
<1>5. QED
  BY <1>2, <1>3, <1>4

\* The counts follow the one thread that moves.
LEMMA CountsMove ==
  ASSUME NEW q \in [Thread -> AllPC], NEW r \in [Thread -> Locals], NEW t \in Thread,
         NEW p \in AllPC, NEW l \in Locals
  PROVE  LET q2 == [q EXCEPT ![t] = p]
             r2 == [r EXCEPT ![t] = l]
         IN /\ Due(q2, r2) = Due(q, r) - DueBy(t, q[t], r[t]) + DueBy(t, p, l)
            /\ Taken(q2, r2) = Taken(q, r) - TakenBy(t, q[t], r[t]) + TakenBy(t, p, l)
            /\ Due(q, r) \in Nat /\ Taken(q, r) \in Nat
<1> DEFINE q2 == [q EXCEPT ![t] = p]
           r2 == [r EXCEPT ![t] = l]
<1>1. \A u \in Thread : r[u].remaining \in 0..Cardinality(Item)
  BY DEF Locals
<1>2. l.remaining \in 0..Cardinality(Item) /\ 0 \in 0..Cardinality(Item)
  BY Basics DEF Locals
<1>3. /\ q2[t] = p /\ r2[t] = l /\ \A u \in Thread \ {t} : q2[u] = q[u] /\ r2[u] = r[u]
  OBVIOUS
<1>4. /\ Asked(q, r) \in [Thread -> 0..Cardinality(Item)] /\ Asks(p, l) \in 0..Cardinality(Item)
      /\ Asks(q[t], r[t]) \in 0..Cardinality(Item)
  BY <1>1, <1>2 DEF Asked, Asks
<1>5. /\ Made(q, r) \in [Thread -> 0..Cardinality(Item)] /\ Makes(p, l) \in 0..Cardinality(Item)
      /\ Makes(q[t], r[t]) \in 0..Cardinality(Item)
  BY <1>1, <1>2 DEF Made, Makes
<1> HIDE DEF q2, r2
<1>6. Asked(q2, r2) = [Asked(q, r) EXCEPT ![t] = Asks(p, l)] /\ Asked(q, r)[t] = Asks(q[t], r[t])
  BY <1>3 DEF Asked
<1>7. Made(q2, r2) = [Made(q, r) EXCEPT ![t] = Makes(p, l)] /\ Made(q, r)[t] = Makes(q[t], r[t])
  BY <1>3 DEF Made
<1>8. Total(Asked(q2, r2)) = Total(Asked(q, r)) - Asks(q[t], r[t]) + Asks(p, l) /\ Total(Asked(q, r)) \in Nat
  <2> DEFINE f == Asked(q, r)
             n == Asks(p, l)
  <2> HIDE DEF f, n
  <2>1. f \in [Thread -> 0..Cardinality(Item)] /\ n \in 0..Cardinality(Item)
    BY <1>4 DEF f, n
  <2>2. Total([f EXCEPT ![t] = n]) = Total(f) - f[t] + n /\ Total(f) \in Nat
    BY <2>1, TotalChange
  <2>3. QED
    BY <1>6, <2>2 DEF f, n
<1>9. Total(Made(q2, r2)) = Total(Made(q, r)) - Makes(q[t], r[t]) + Makes(p, l) /\ Total(Made(q, r)) \in Nat
  <2> DEFINE f == Made(q, r)
             n == Makes(p, l)
  <2> HIDE DEF f, n
  <2>1. f \in [Thread -> 0..Cardinality(Item)] /\ n \in 0..Cardinality(Item)
    BY <1>5 DEF f, n
  <2>2. Total([f EXCEPT ![t] = n]) = Total(f) - f[t] + n /\ Total(f) \in Nat
    BY <2>1, TotalChange
  <2>3. QED
    BY <1>7, <2>2 DEF f, n
<1>10. /\ Cardinality(Waiting(q)) \in Nat
       /\ Cardinality(Waiting(q2)) = Cardinality(Waiting(q)) - Waits(t, q[t]) + Waits(t, p)
  <2>1. Waiting(q) \subseteq Thread /\ Waiting(q2) \subseteq Thread
    BY Basics DEF Waiting
  <2>2. Waiting(q) \ {t} = Waiting(q2) \ {t}
    BY <1>3, Basics DEF Waiting
  <2>3. /\ Waits(t, q[t]) = IF t \in Waiting(q) THEN 1 ELSE 0
        /\ Waits(t, p) = IF t \in Waiting(q2) THEN 1 ELSE 0
    BY <1>3 DEF Waits, Waiting
  <2>4. QED
    BY <2>1, <2>2, <2>3, OneChanges
<1>11. /\ Cardinality(Living(q, r)) \in Nat
       /\ Cardinality(Living(q2, r2)) = Cardinality(Living(q, r)) - Lives(t, q[t], r[t]) + Lives(t, p, l)
  <2>1. Living(q, r) \subseteq Thread /\ Living(q2, r2) \subseteq Thread
    BY Basics DEF Living
  <2>2. Living(q, r) \ {t} = Living(q2, r2) \ {t}
    BY <1>3, Basics DEF Living
  <2>3. /\ Lives(t, q[t], r[t]) = IF t \in Living(q, r) THEN 1 ELSE 0
        /\ Lives(t, p, l) = IF t \in Living(q2, r2) THEN 1 ELSE 0
    BY <1>3 DEF Lives, Living
  <2>4. QED
    BY <2>1, <2>2, <2>3, OneChanges
<1>12. /\ Waits(t, q[t]) \in Int /\ Waits(t, p) \in Int /\ Asks(q[t], r[t]) \in Int /\ Asks(p, l) \in Int
       /\ Lives(t, q[t], r[t]) \in Int /\ Lives(t, p, l) \in Int
       /\ Makes(q[t], r[t]) \in Int /\ Makes(p, l) \in Int
  BY <1>4, <1>5, Basics DEF Waits, Lives
<1>13. QED
  BY <1>8, <1>9, <1>10, <1>11, <1>12 DEF Due, Taken, DueBy, TakenBy, q2, r2

\* The invariants in these terms.
LEMMA InTerms ==
  ASSUME NEW q, NEW r
  PROVE  /\ Asked(q, r) = [t \in Thread |-> IF q[t] \in {"pool", "reduce", "take", "create"}
                                              THEN r[t].remaining ELSE 0]
         /\ Made(q, r) = [t \in Thread |-> IF q[t] = "create" THEN r[t].remaining ELSE 0]
BY DEF Asked, Made, Asks, Makes

\* No more is taken from the pool than it held, and none is missing.
LEMMA PoolBound ==
  ASSUME Types, PoolAccounted
  PROVE  dgq_thread_pool_size <= MaxThreads /\ Taken(pc, reg) \in Nat
         /\ dgq_thread_pool_size + Taken(pc, reg) = PoolSize
<1>1. Unborn = Made(pc, reg) /\ Living(pc, reg) = Alive
  BY InTerms DEF Unborn, Living, Alive, Leaving
<1>2. pc \in [Thread -> AllPC] /\ reg \in [Thread -> Locals] /\ Monitor \in Thread
  BY Basics DEF Types
<1>3. Total(Made(pc, reg)) \in Nat /\ Cardinality(Living(pc, reg)) \in Nat
  <2>1. Cardinality(Living(pc, reg)) \in Nat
    BY ThreadsFinite, Basics DEF Living
  <2>2. Made(pc, reg) \in [Thread -> 0..Cardinality(Item)] /\ 0 \in 0..Cardinality(Item)
    BY <1>2, Basics DEF Made, Makes, Locals
  <2>3. Total(Made(pc, reg)) \in Nat
    BY <1>2, <2>2, TotalChange
  <2>4. QED
    BY <2>1, <2>3
<1>4. PoolSize \in Nat /\ PoolSize <= MaxThreads /\ dgq_thread_pool_size \in Int
  BY Basics DEF PoolSize, Types
<1>5. dgq_thread_pool_size + Cardinality(Living(pc, reg)) + Total(Made(pc, reg)) = PoolSize
  BY <1>1 DEF PoolAccounted
<1>6. QED
  BY <1>3, <1>4, <1>5, Basics DEF Taken

\* A step that moves one thread keeps the accounts if it books what the thread changes.
Moves(t) == pc' = [pc EXCEPT ![t] = pc'[t]] /\ reg' = [reg EXCEPT ![t] = reg'[t]]
Books(due, taken) ==
  /\ dgq_pending' = dgq_pending + due /\ dgq_thread_pool_size' = dgq_thread_pool_size - taken
  /\ overcommit' = overcommit
Accounted == PendingAccounted /\ PoolAccounted

\* The counts of the next state decide.
LEMMA Booked ==
  ASSUME Types, Types', Accounted, NEW due \in Int, NEW taken \in Int, Books(due, taken),
         Due(pc', reg') = Due(pc, reg) + due, Taken(pc', reg') = Taken(pc, reg) + taken
  PROVE  Accounted'
<1>1. Requested = Asked(pc, reg) /\ Requested' = Asked(pc', reg') /\ Unborn' = Made(pc', reg')
  BY InTerms DEF Requested, Unborn
<1>2. /\ Waiting(pc) = {w \in Worker : pc[w] \in {"born"} \cup BackingOff}
      /\ Waiting(pc') = {w \in Worker : pc'[w] \in {"born"} \cup BackingOff}
      /\ Living(pc', reg') = Alive'
  BY DEF Waiting, Living, Alive, Leaving
<1>3. PendingAccounted'
  <2>1. dgq_pending = Due(pc, reg) /\ (PendingAccounted' <=> dgq_pending' = Due(pc', reg'))
    BY <1>1, <1>2 DEF PendingAccounted, Accounted, Due
  <2>2. QED
    BY <2>1 DEF Books
<1>4. PoolAccounted'
  <2>1. dgq_thread_pool_size + Taken(pc, reg) = PoolSize /\ Taken(pc, reg) \in Nat
    BY PoolBound DEF Accounted
  <2>2. Total(Made(pc', reg')) \in Nat /\ Cardinality(Living(pc', reg')) \in Nat
    <3>1. Cardinality(Living(pc', reg')) \in Nat
      BY ThreadsFinite, Basics DEF Living
    <3>2. Made(pc', reg') \in [Thread -> 0..Cardinality(Item)] /\ 0 \in 0..Cardinality(Item)
      BY Basics DEF Made, Makes, Locals, Types
    <3>3. Total(Made(pc', reg')) \in Nat
      BY <3>2, Basics, TotalChange
    <3>4. QED
      BY <3>1, <3>3
  <2>3. PoolSize' = PoolSize /\ PoolSize \in Int /\ dgq_thread_pool_size \in Int
    BY Basics DEF PoolSize, Books, Types
  <2>4. dgq_thread_pool_size' + Cardinality(Living(pc', reg')) + Total(Made(pc', reg')) = PoolSize
    BY <2>1, <2>2, <2>3 DEF Books, Taken
  <2>5. QED
    BY <1>1, <1>2, <2>3, <2>4 DEF PoolAccounted
<1>5. QED
  BY <1>3, <1>4 DEF Accounted

\* One thread moves.
LEMMA OneBooked ==
  ASSUME Types, Types', Accounted, NEW t \in Thread, Moves(t), NEW due \in Int, NEW taken \in Int,
         Books(due, taken), DueBy(t, pc'[t], reg'[t]) = DueBy(t, pc[t], reg[t]) + due,
         TakenBy(t, pc'[t], reg'[t]) = TakenBy(t, pc[t], reg[t]) + taken
  PROVE  Accounted'
<1> DEFINE p == pc'[t]
           l == reg'[t]
<1>1. /\ p \in AllPC /\ l \in Locals /\ pc \in [Thread -> AllPC] /\ reg \in [Thread -> Locals]
      /\ pc' = [pc EXCEPT ![t] = p] /\ reg' = [reg EXCEPT ![t] = l]
      /\ reg[t].remaining \in Int /\ l.remaining \in Int
  <2>1. p \in AllPC /\ l \in Locals /\ pc \in [Thread -> AllPC] /\ reg \in [Thread -> Locals]
    BY DEF Types
  <2>2. pc' = [pc EXCEPT ![t] = p] /\ reg' = [reg EXCEPT ![t] = l]
    BY DEF Moves
  <2> HIDE DEF l, p
  <2>3. reg[t].remaining \in Int /\ l.remaining \in Int
    BY <2>1, Basics DEF Locals
  <2>4. QED
    BY <2>1, <2>2, <2>3
<1>2. /\ DueBy(t, p, l) = DueBy(t, pc[t], reg[t]) + due
      /\ TakenBy(t, p, l) = TakenBy(t, pc[t], reg[t]) + taken
  OBVIOUS
<1> HIDE DEF p, l
<1>3. /\ Due(pc', reg') = Due(pc, reg) - DueBy(t, pc[t], reg[t]) + DueBy(t, p, l)
      /\ Taken(pc', reg') = Taken(pc, reg) - TakenBy(t, pc[t], reg[t]) + TakenBy(t, p, l)
      /\ Due(pc, reg) \in Nat /\ Taken(pc, reg) \in Nat
  BY <1>1, CountsMove
<1>4. DueBy(t, pc[t], reg[t]) \in Int /\ TakenBy(t, pc[t], reg[t]) \in Int
  BY <1>1 DEF DueBy, TakenBy, Asks, Waits, Lives, Makes
<1>5. Due(pc', reg') = Due(pc, reg) + due /\ Taken(pc', reg') = Taken(pc, reg) + taken
  BY <1>2, <1>3, <1>4
<1>6. QED
  BY <1>5, Booked

\* Every step keeps the accounts.
LEMMA AccountStep == Types /\ Roles /\ Types' /\ Accounted /\ [Next]_vars => Accounted'
<1> SUFFICES ASSUME Types, Roles, Types', Accounted, [Next]_vars PROVE Accounted'
  OBVIOUS
<1>t. Types /\ Roles /\ Types' /\ Accounted
  OBVIOUS
<1>b. /\ Client \subseteq Thread /\ Worker \subseteq Thread /\ Monitor \in Thread
      /\ Client \cap Worker = {} /\ Monitor \notin Client /\ Monitor \notin Worker
  BY Basics
<1>f. pc \in [Thread -> AllPC] /\ reg \in [Thread -> Locals] /\ reg' \in [Thread -> Locals]
  BY <1>t DEF Types
<1>m. ASSUME NEW t \in Thread, NEW p, NEW l, pc' = [pc EXCEPT ![t] = p],
             reg' = [reg EXCEPT ![t] = l] \/ (reg' = reg /\ l = reg[t])
      PROVE  Moves(t) /\ pc'[t] = p /\ reg'[t] = l
  BY <1>f, <1>m DEF Moves
<1>w. ASSUME NEW w \in Worker, NEW p \in WorkerPC \ {"none"}, NEW l
      PROVE  DueBy(w, p, l) = (IF p \in {"born"} \cup BackingOff THEN 1 ELSE 0) /\ TakenBy(w, p, l) = 1
  <2>1. p \notin PokePC /\ p # "none"
    BY DEF WorkerPC, PokePC
  <2>2. Asks(p, l) = 0 /\ Makes(p, l) = 0 /\ Lives(w, p, l) = 1
    BY <2>1 DEF Asks, Makes, Lives, PokePC
  <2>3. QED
    BY <2>2 DEF DueBy, TakenBy, Waits
<1>c. ASSUME NEW t \in Thread \ Worker, NEW p \in AllPC \ {"pool", "reduce", "take", "create"}, NEW l
      PROVE  DueBy(t, p, l) = 0 /\ TakenBy(t, p, l) = 0
  BY DEF DueBy, TakenBy, Asks, Makes, Waits, Lives
<1>p. ASSUME NEW t \in Thread, NEW p \in PokePC, NEW l \in Locals
      PROVE  /\ DueBy(t, p, l) = Asks(p, l)
             /\ TakenBy(t, p, l) = (IF t \in Worker /\ l.back # "none" THEN 1 ELSE 0) + Makes(p, l)
  <2>1. Asks(p, l) \in Int /\ Makes(p, l) \in Int
    BY Basics DEF Asks, Makes, Locals
  <2>2. Waits(t, p) = 0 /\ Lives(t, p, l) = (IF t \in Worker /\ l.back # "none" THEN 1 ELSE 0)
    BY DEF Waits, Lives, PokePC, BackingOff
  <2>3. QED
    BY <2>1, <2>2 DEF DueBy, TakenBy
<1>q. ASSUME NEW t \in Thread, Moves(t), Books(0, 0), DueBy(t, pc'[t], reg'[t]) = DueBy(t, pc[t], reg[t]),
             TakenBy(t, pc'[t], reg'[t]) = TakenBy(t, pc[t], reg[t])
      PROVE  Accounted'
  <2>1. DueBy(t, pc[t], reg[t]) \in Int /\ TakenBy(t, pc[t], reg[t]) \in Int
    <3>1. reg[t].remaining \in Int
      BY <1>f, Basics DEF Locals
    <3>2. QED
      BY <3>1 DEF DueBy, TakenBy, Asks, Waits, Lives, Makes
  <2>2. QED
    BY <1>t, <1>q, <2>1, OneBooked
<1>z. ASSUME Books(0, 0), Due(pc', reg') = Due(pc, reg), Taken(pc', reg') = Taken(pc, reg)
      PROVE  Accounted'
  <2>1. Due(pc, reg) \in Nat /\ Taken(pc, reg) \in Nat
    BY <1>b, <1>f, CountsMove
  <2>2. QED
    BY <1>t, <1>z, <2>1, Booked
<1>u. ASSUME dgq_pending' = dgq_pending, dgq_thread_pool_size' = dgq_thread_pool_size, overcommit' = overcommit
      PROVE  Books(0, 0)
  BY <1>t, <1>u DEF Books, Types
<1>o. ASSUME NEW w \in Worker, Moves(w), Books(0, 0),
             pc[w] \in WorkerPC \ ({"none", "born"} \cup BackingOff),
             pc'[w] \in WorkerPC \ ({"none", "born"} \cup BackingOff)
      PROVE  Accounted'
  <2>1. DueBy(w, pc[w], reg[w]) = 0 /\ DueBy(w, pc'[w], reg'[w]) = 0
    BY <1>o, <1>w
  <2>2. TakenBy(w, pc[w], reg[w]) = 1 /\ TakenBy(w, pc'[w], reg'[w]) = 1
    BY <1>o, <1>w
  <2>3. QED
    BY <1>b, <1>o, <1>q, <2>1, <2>2
<1>r. ASSUME NEW t \in Thread, pc[t] \in PokePC, PokeReturns(t)
      PROVE  Moves(t) /\ DueBy(t, pc'[t], reg'[t]) = 0
             /\ TakenBy(t, pc'[t], reg'[t]) = IF t \in Worker /\ reg[t].back # "none" THEN 1 ELSE 0
  <2> DEFINE l == Call(reg[t].item, 0, 0, "done")
  <2>1. reg[t].back \in AllPC /\ reg[t].back \notin PokePC /\ reg' = [reg EXCEPT ![t] = l]
    BY <1>t, <1>r, ReturnFits DEF PokeReturns, Keep
  <2>2. pc' = [pc EXCEPT ![t] = reg[t].back]
    BY <1>r DEF PokeReturns, Goto
  <2>3. Moves(t) /\ pc'[t] = reg[t].back
    BY <1>m, <2>1, <2>2
  <2>4. reg[t].back \in {"done", "invoke", "park", "none", "tick"}
    BY <1>f DEF Locals
  <2> HIDE DEF l
  <2>5. DueBy(t, reg[t].back, reg'[t]) = 0
    <3>1. reg[t].back \notin {"pool", "reduce", "take", "create"} /\ reg[t].back \notin {"born"} \cup BackingOff
      BY <2>4 DEF BackingOff
    <3>2. QED
      BY <3>1 DEF DueBy, Asks, Waits
  <2>6. TakenBy(t, reg[t].back, reg'[t]) = IF t \in Worker /\ reg[t].back # "none" THEN 1 ELSE 0
    BY <2>1, <2>4 DEF TakenBy, Lives, Makes
  <2>7. QED
    BY <2>3, <2>5, <2>6
<1>s. ASSUME NEW t \in Thread, pc[t] \in PokePC \ {"pool", "reduce", "take", "create"}, PokeReturns(t),
             Books(0, 0)
      PROVE  Accounted'
  <2>1. DueBy(t, pc[t], reg[t]) = 0
        /\ TakenBy(t, pc[t], reg[t]) = IF t \in Worker /\ reg[t].back # "none" THEN 1 ELSE 0
    BY <1>f, <1>p, <1>s DEF Asks, Makes
  <2>2. QED
    BY <1>q, <1>r, <1>s, <2>1
<1>k. ASSUME NEW t \in Thread, pc[t] \in PokePC, pc'[t] \in PokePC, Moves(t), Books(0, 0),
             reg'[t].back = reg[t].back, Asks(pc'[t], reg'[t]) = Asks(pc[t], reg[t]),
             Makes(pc'[t], reg'[t]) = Makes(pc[t], reg[t])
      PROVE  Accounted'
  <2>1. reg[t] \in Locals /\ reg'[t] \in Locals
    BY <1>f
  <2>2. DueBy(t, pc'[t], reg'[t]) = DueBy(t, pc[t], reg[t])
        /\ TakenBy(t, pc'[t], reg'[t]) = TakenBy(t, pc[t], reg[t])
    BY <1>k, <1>p, <2>1
  <2>3. QED
    BY <1>k, <1>q, <2>2
<1>y. ASSUME NEW t \in Thread, NEW n, NEW f, NEW b, Poke(t, n, f, b)
      PROVE  Moves(t) /\ pc'[t] = "probe" /\ reg'[t].back = b /\ DueBy(t, pc'[t], reg'[t]) = 0
             /\ TakenBy(t, pc'[t], reg'[t]) = IF t \in Worker /\ b # "none" THEN 1 ELSE 0
  <2> DEFINE i == IF b = "invoke" THEN reg[t].item ELSE None
             l == [NoLocals EXCEPT !.item = i, !.remaining = n, !.floor = f, !.back = b]
  <2>1. pc' = [pc EXCEPT ![t] = "probe"] /\ reg' = [reg EXCEPT ![t] = l]
    BY <1>y DEF Poke, Goto, Keep
  <2>2. l.back = b
    BY DEF NoLocals
  <2> HIDE DEF l
  <2>3. Moves(t) /\ pc'[t] = "probe" /\ reg'[t] = l
    BY <1>m, <2>1
  <2>4. "probe" \in PokePC /\ l \in Locals /\ Asks("probe", l) = 0 /\ Makes("probe", l) = 0
    BY <1>f, <2>3 DEF PokePC, Asks, Makes
  <2>5. QED
    BY <1>p, <2>2, <2>3, <2>4
<1>1. ASSUME NEW c \in Client, PushTail(c) PROVE Accounted'
  <2>1. Moves(c) /\ pc'[c] = "link" /\ pc[c] = "push"
    BY <1>b, <1>m, <1>1 DEF PushTail, Goto, Keep
  <2>2. Books(0, 0)
    BY <1>u, <1>1 DEF PushTail, callVars, poolVars
  <2>3. QED
    BY <1>b, <1>c, <1>q, <2>1, <2>2 DEF AllPC, ClientPC
<1>2. ASSUME NEW c \in Client, PushLink(c) PROVE Accounted'
  <2>1. pc[c] = "link" /\ Books(0, 0)
    BY <1>u, <1>2 DEF PushLink, callVars, poolVars
  <2>2. Moves(c) /\ pc'[c] \in {"probe", "done"}
    <3>1. CASE Poke(c, Len(chain[c]), 0, "done")
      BY <1>b, <1>y, <3>1
    <3>2. CASE Goto(c, "done") /\ Forget(c)
      BY <1>b, <1>m, <3>2 DEF Goto, Forget, Keep
    <3>3. QED
      BY <1>2, <3>1, <3>2 DEF PushLink
  <2>3. QED
    BY <1>b, <1>c, <1>q, <2>1, <2>2 DEF AllPC, ClientPC, PokePC
<1>3. ASSUME NEW t \in Thread, PokeProbe(t) PROVE Accounted'
  <2>1. pc[t] = "probe" /\ Books(0, 0)
    BY <1>u, <1>3 DEF PokeProbe, callVars, poolVars
  <2>2. CASE PokeReturns(t)
    BY <1>s, <2>1, <2>2 DEF PokePC
  <2>3. CASE Goto(t, "signal") /\ reg' = reg
    <3>1. Moves(t) /\ pc'[t] = "signal" /\ reg'[t] = reg[t]
      BY <1>m, <2>3 DEF Goto
    <3>2. QED
      BY <1>k, <2>1, <3>1 DEF PokePC, Asks, Makes
  <2>4. QED
    BY <1>3, <2>2, <2>3 DEF PokeProbe
<1>4. ASSUME NEW t \in Thread, PokeSignal(t) PROVE Accounted'
  <2>1. pc[t] = "signal" /\ Books(0, 0) /\ reg' = reg
    BY <1>u, <1>4 DEF PokeSignal, callVars, poolVars
  <2>2. PICK p \in {"post", "pending"} : Goto(t, p)
    BY <1>4 DEF PokeSignal
  <2>3. Moves(t) /\ pc'[t] = p /\ reg'[t] = reg[t]
    BY <1>m, <2>1, <2>2 DEF Goto
  <2>4. QED
    BY <1>k, <2>1, <2>3 DEF PokePC, Asks, Makes
<1>5. ASSUME NEW t \in Thread, PokePost(t) PROVE Accounted'
  <2>1. pc[t] = "post" /\ Books(0, 0)
    BY <1>u, <1>5 DEF PokePost, callVars, poolVars
  <2>2. CASE PokeReturns(t)
    BY <1>s, <2>1, <2>2 DEF PokePC
  <2>3. CASE Goto(t, "signal") /\ Keep(t, [reg[t] EXCEPT !.remaining = @ - 1])
    <3>1. Moves(t) /\ pc'[t] = "signal" /\ reg'[t] = [reg[t] EXCEPT !.remaining = @ - 1]
      BY <1>m, <2>3 DEF Goto, Keep
    <3>2. reg'[t].back = reg[t].back
      BY <1>f, <3>1 DEF Locals
    <3>3. QED
      BY <1>k, <2>1, <3>1, <3>2 DEF PokePC, Asks, Makes
  <2>4. QED
    BY <1>5, <2>2, <2>3 DEF PokePost
<1>6. ASSUME NEW t \in Thread, PokePending(t) PROVE Accounted'
  <2>1. pc[t] = "pending" /\ dgq_thread_pool_size' = dgq_thread_pool_size /\ overcommit' = overcommit
    BY <1>6 DEF PokePending, callVars
  <2>2. CASE PokeReturns(t) /\ dgq_pending' = dgq_pending
    BY <1>s, <1>u, <2>1, <2>2 DEF PokePC
  <2>3. CASE dgq_pending' = dgq_pending + reg[t].remaining /\ Goto(t, "pool") /\ reg' = reg
    <3>1. Moves(t) /\ pc'[t] = "pool" /\ reg'[t] = reg[t]
      BY <1>m, <2>3 DEF Goto
    <3>2. reg[t] \in Locals /\ reg[t].remaining \in Int /\ dgq_thread_pool_size \in Int
      BY <1>f, <1>t, Basics DEF Locals, Types
    <3>3. /\ DueBy(t, pc[t], reg[t]) = 0 /\ DueBy(t, pc'[t], reg'[t]) = reg[t].remaining
          /\ TakenBy(t, pc'[t], reg'[t]) = TakenBy(t, pc[t], reg[t]) /\ TakenBy(t, pc[t], reg[t]) \in Int
      BY <1>p, <2>1, <3>1, <3>2 DEF PokePC, Asks, Makes
    <3>4. Books(reg[t].remaining, 0)
      BY <2>1, <2>3, <3>2 DEF Books
    <3>5. QED
      BY <1>t, <3>1, <3>2, <3>3, <3>4, OneBooked
  <2>4. QED
    BY <1>6, <2>2, <2>3 DEF PokePending
<1>7. ASSUME NEW t \in Thread, PokePool(t) PROVE Accounted'
  <2>1. pc[t] = "pool"
    BY <1>7 DEF PokePool
  <2>2. Books(0, 0) /\ PokeSizes(t, dgq_thread_pool_size)
    BY <1>u, <1>7 DEF PokePool, callVars, poolVars
  <2>3. QED
    <3>1. PICK p \in {"reduce", "take"} : Goto(t, p)
      BY <2>2 DEF PokeSizes
    <3>2. Moves(t) /\ pc'[t] = p /\ reg'[t] = [reg[t] EXCEPT !.t_count = dgq_thread_pool_size]
      BY <1>m, <3>1, <2>2 DEF PokeSizes, Goto, Keep
    <3>3. reg'[t].back = reg[t].back /\ reg'[t].remaining = reg[t].remaining
      BY <1>f, <3>2 DEF Locals
    <3>4. QED
      BY <1>k, <2>1, <3>2, <3>3, <2>2 DEF PokePC, Asks, Makes
<1>8. ASSUME NEW t \in Thread, PokeReduce(t) PROVE Accounted'
  <2> DEFINE can == CanRequest(t, reg[t].t_count)
             gone == reg[t].remaining - can
  <2>1. /\ pc[t] = "reduce" /\ dgq_thread_pool_size' = dgq_thread_pool_size /\ overcommit' = overcommit
        /\ dgq_pending' = dgq_pending - gone
    BY <1>8 DEF PokeReduce, callVars
  <2>2. /\ reg[t] \in Locals /\ reg[t].remaining \in Int /\ dgq_thread_pool_size \in Int /\ dgq_pending \in Int
        /\ reg[t].t_count \in Int /\ reg[t].floor \in Int
    BY <1>f, <1>t, Basics DEF Locals, Types
  <2>3. can \in Int
    BY <2>2 DEF CanRequest
  <2> HIDE DEF can
  <2>4. Books(-gone, 0) /\ gone \in Int /\ -gone \in Int
    BY <2>1, <2>2, <2>3 DEF Books
  <2>5. /\ DueBy(t, pc[t], reg[t]) = reg[t].remaining
        /\ TakenBy(t, pc[t], reg[t]) = IF t \in Worker /\ reg[t].back # "none" THEN 1 ELSE 0
    BY <1>p, <2>1, <2>2 DEF PokePC, Asks, Makes
  <2>6. CASE can = 0 /\ PokeReturns(t)
    <3>1. /\ Moves(t) /\ DueBy(t, pc'[t], reg'[t]) = 0
          /\ TakenBy(t, pc'[t], reg'[t]) = TakenBy(t, pc[t], reg[t]) + 0
      BY <1>r, <2>1, <2>5, <2>6 DEF PokePC
    <3>2. DueBy(t, pc'[t], reg'[t]) = DueBy(t, pc[t], reg[t]) + -gone
      BY <2>2, <2>3, <2>5, <2>6, <3>1
    <3> HIDE DEF gone
    <3>3. QED
      BY <1>t, <2>4, <3>1, <3>2, OneBooked
  <2>7. CASE Goto(t, "take") /\ Keep(t, [reg[t] EXCEPT !.remaining = can])
    <3>1. Moves(t) /\ pc'[t] = "take" /\ reg'[t] = [reg[t] EXCEPT !.remaining = can]
      BY <1>m, <2>7 DEF Goto, Keep
    <3>2. reg'[t].back = reg[t].back /\ reg'[t].remaining = can /\ reg'[t] \in Locals
      BY <1>f, <3>1 DEF Locals
    <3>3. /\ DueBy(t, pc'[t], reg'[t]) = can
          /\ TakenBy(t, pc'[t], reg'[t]) = TakenBy(t, pc[t], reg[t]) + 0
      <4>1. "take" \in PokePC /\ Asks("take", reg'[t]) = can /\ Makes("take", reg'[t]) = 0
        BY <3>2 DEF PokePC, Asks, Makes
      <4>2. /\ DueBy(t, "take", reg'[t]) = can
            /\ TakenBy(t, "take", reg'[t]) = (IF t \in Worker /\ reg'[t].back # "none" THEN 1 ELSE 0) + 0
        BY <1>p, <3>2, <4>1
      <4>3. QED
        BY <2>5, <3>1, <3>2, <4>2
    <3>4. DueBy(t, pc'[t], reg'[t]) = DueBy(t, pc[t], reg[t]) + -gone
      BY <2>2, <2>3, <2>5, <3>3
    <3> HIDE DEF gone
    <3>5. QED
      BY <1>t, <2>4, <3>1, <3>3, <3>4, OneBooked
  <2>8. QED
    BY <1>8, <2>6, <2>7 DEF PokeReduce, can
<1>9. ASSUME NEW t \in Thread, PokeTake(t) PROVE Accounted'
  <2>1. pc[t] = "take" /\ dgq_pending' = dgq_pending /\ overcommit' = overcommit
    BY <1>9 DEF PokeTake, callVars
  <2>2. CASE /\ dgq_thread_pool_size = reg[t].t_count
             /\ dgq_thread_pool_size' = reg[t].t_count - reg[t].remaining
             /\ Goto(t, "create") /\ reg' = reg
    <3>1. Moves(t) /\ pc'[t] = "create" /\ reg'[t] = reg[t]
      BY <1>m, <2>2 DEF Goto
    <3>2. reg[t] \in Locals /\ reg[t].remaining \in Int /\ dgq_thread_pool_size \in Int /\ dgq_pending \in Int
      BY <1>f, <1>t, Basics DEF Locals, Types
    <3>3. /\ DueBy(t, pc'[t], reg'[t]) = DueBy(t, pc[t], reg[t]) + 0
          /\ TakenBy(t, pc'[t], reg'[t]) = TakenBy(t, pc[t], reg[t]) + reg[t].remaining
      BY <1>p, <2>1, <3>1, <3>2 DEF PokePC, Asks, Makes
    <3>4. Books(0, reg[t].remaining)
      BY <2>1, <2>2, <3>2 DEF Books
    <3>5. QED
      BY <1>t, <3>1, <3>2, <3>3, <3>4, OneBooked
  <2>3. CASE PokeSizes(t, dgq_thread_pool_size) /\ dgq_thread_pool_size' = dgq_thread_pool_size
    <3>0. Books(0, 0)
      BY <1>u, <2>1, <2>3
    <3>1. PICK p \in {"reduce", "take"} : Goto(t, p)
      BY <2>3 DEF PokeSizes
    <3>2. Moves(t) /\ pc'[t] = p /\ reg'[t] = [reg[t] EXCEPT !.t_count = dgq_thread_pool_size]
      BY <1>m, <3>1, <2>3 DEF PokeSizes, Goto, Keep
    <3>3. reg'[t].back = reg[t].back /\ reg'[t].remaining = reg[t].remaining
      BY <1>f, <3>2 DEF Locals
    <3>4. QED
      BY <1>k, <2>1, <3>2, <3>3, <3>0 DEF PokePC, Asks, Makes
  <2>4. QED
    BY <1>9, <2>2, <2>3 DEF PokeTake
<1>10. ASSUME NEW t \in Thread, PokeCreate(t) PROVE Accounted'
  <2> DEFINE last == reg[t].remaining = 1
             p == IF last THEN reg[t].back ELSE "create"
             l == IF last THEN [NoLocals EXCEPT !.item = reg[t].item]
                  ELSE [reg[t] EXCEPT !.remaining = @ - 1]
  <2>1. PICK w \in Worker : pc[w] = "none" /\ pc' = [pc EXCEPT ![w] = "born", ![t] = p]
    BY <1>10 DEF PokeCreate
  <2>2. /\ w \in Thread /\ w # t /\ reg' = [reg EXCEPT ![t] = l] /\ pc[t] = "create" /\ "born" \in AllPC
        /\ Books(0, 0)
    BY <1>b, <1>u, <1>10, <2>1 DEF PokeCreate, Keep, callVars, poolVars, AllPC, WorkerPC
  <2> DEFINE q == [pc EXCEPT ![w] = "born"]
  <2>3. q \in [Thread -> AllPC] /\ q[t] = "create" /\ pc' = [q EXCEPT ![t] = p]
    BY <1>f, <2>1, <2>2
  <2>4. pc'[t] = p /\ reg'[t] = l /\ p \in AllPC /\ l \in Locals
    <3>1. pc'[t] = p /\ reg'[t] = l /\ pc' \in [Thread -> AllPC]
      BY <1>f, <1>t, <2>2, <2>3 DEF Types
    <3>2. QED
      BY <1>f, <3>1
  <2>5. /\ Due(q, reg) = Due(pc, reg) - DueBy(w, "none", reg[w]) + DueBy(w, "born", reg[w])
        /\ Taken(q, reg) = Taken(pc, reg) - TakenBy(w, "none", reg[w]) + TakenBy(w, "born", reg[w])
        /\ Due(pc, reg) \in Nat /\ Taken(pc, reg) \in Nat
    <3>1. reg[w] \in Locals
      BY <1>f, <2>2
    <3>2. QED
      <4> DEFINE q2 == [pc EXCEPT ![w] = "born"]
                 r2 == [reg EXCEPT ![w] = reg[w]]
      <4>1. w \in Thread /\ "born" \in AllPC
        BY <2>2
      <4>2. /\ Due(q2, r2) = Due(pc, reg) - DueBy(w, pc[w], reg[w]) + DueBy(w, "born", reg[w])
            /\ Taken(q2, r2) = Taken(pc, reg) - TakenBy(w, pc[w], reg[w]) + TakenBy(w, "born", reg[w])
            /\ Due(pc, reg) \in Nat /\ Taken(pc, reg) \in Nat
        BY <1>f, <3>1, <4>1, CountsMove
      <4>3. r2 = reg
        BY <1>f
      <4> HIDE DEF r2
      <4>4. QED
        BY <2>1, <4>2, <4>3
  <2>6. /\ Due(pc', reg') = Due(q, reg) - DueBy(t, "create", reg[t]) + DueBy(t, p, l)
        /\ Taken(pc', reg') = Taken(q, reg) - TakenBy(t, "create", reg[t]) + TakenBy(t, p, l)
    <3> HIDE DEF q, p, l
    <3> DEFINE q2 == [q EXCEPT ![t] = p]
               r2 == [reg EXCEPT ![t] = l]
    <3>1. q \in [Thread -> AllPC] /\ p \in AllPC /\ l \in Locals
      BY <2>3, <2>4
    <3>2. /\ Due(q2, r2) = Due(q, reg) - DueBy(t, q[t], reg[t]) + DueBy(t, p, l)
          /\ Taken(q2, r2) = Taken(q, reg) - TakenBy(t, q[t], reg[t]) + TakenBy(t, p, l)
      BY <1>f, <3>1, CountsMove
    <3>3. q2 = pc' /\ r2 = reg'
      BY <2>2, <2>3
    <3> HIDE DEF q2, r2
    <3>4. QED
      BY <2>3, <3>2, <3>3
  <2>7. /\ DueBy(w, "none", reg[w]) = 0 /\ DueBy(w, "born", reg[w]) = 1
        /\ TakenBy(w, "none", reg[w]) = 0 /\ TakenBy(w, "born", reg[w]) = 1
    BY DEF DueBy, TakenBy, Asks, Waits, Lives, Makes, PokePC, BackingOff
  <2>8. /\ reg[t] \in Locals /\ reg[t].remaining \in Int /\ "create" \in PokePC
        /\ DueBy(t, "create", reg[t]) = reg[t].remaining
        /\ TakenBy(t, "create", reg[t]) = (IF t \in Worker /\ reg[t].back # "none" THEN 1 ELSE 0) + reg[t].remaining
    <3>1. reg[t] \in Locals /\ reg[t].remaining \in Int /\ "create" \in PokePC
      BY <1>f, Basics DEF Locals, PokePC
    <3>2. QED
      BY <1>p, <3>1 DEF Asks, Makes
  <2>9. /\ DueBy(t, p, l) = reg[t].remaining - 1
        /\ TakenBy(t, p, l) = (IF t \in Worker /\ reg[t].back # "none" THEN 1 ELSE 0) + (reg[t].remaining - 1)
    <3>1. CASE last
      <4>1. reg[t].back \in {"done", "invoke", "park", "none", "tick"} /\ p = reg[t].back
        BY <2>8, <3>1 DEF Locals
      <4> HIDE DEF p, l
      <4>2. /\ DueBy(t, p, l) = 0
            /\ TakenBy(t, p, l) = (IF t \in Worker /\ reg[t].back # "none" THEN 1 ELSE 0)
        <5>1. /\ p \notin {"pool", "reduce", "take", "create"} /\ p \notin {"born"} \cup BackingOff
              /\ p \notin PokePC /\ p # "create"
          BY <4>1 DEF BackingOff, PokePC
        <5>2. QED
          BY <4>1, <5>1 DEF DueBy, TakenBy, Asks, Waits, Lives, Makes
      <4>3. QED
        BY <3>1, <4>2
    <3>2. CASE ~last
      <4>1. p = "create" /\ l = [reg[t] EXCEPT !.remaining = @ - 1]
        BY <3>2
      <4>2. l.back = reg[t].back /\ l.remaining = reg[t].remaining - 1
        BY <2>8, <4>1 DEF Locals
      <4> HIDE DEF p, l
      <4>3. Asks(p, l) = reg[t].remaining - 1 /\ Makes(p, l) = reg[t].remaining - 1 /\ p \in PokePC
        BY <2>8, <4>1, <4>2 DEF Asks, Makes
      <4>4. QED
        BY <1>p, <2>4, <4>2, <4>3
    <3>3. QED
      BY <3>1, <3>2
  <2> HIDE DEF q, p, l, last
  <2>10. Due(pc', reg') = Due(pc, reg)
    BY <2>5, <2>6, <2>7, <2>8, <2>9
  <2>11. Taken(pc', reg') = Taken(pc, reg)
    BY <2>5, <2>6, <2>7, <2>8, <2>9
  <2>12. QED
    BY <1>z, <2>2, <2>10, <2>11
<1>11. ASSUME NEW w \in Worker, DrainStart(w) PROVE Accounted'
  <2>1. /\ pc[w] \in {"drain"} /\ Books(0, 0)
        /\ reg' = [reg EXCEPT ![w] = [NoLocals EXCEPT !.item =
                                        IF dq_items_head = Mediator THEN None ELSE dq_items_head]]
    BY <1>u, <1>11 DEF DrainStart, callVars, poolVars, Goto, Keep, Forget
  <2>2. PICK p \in {"unhead", "lost", "next"} : pc' = [pc EXCEPT ![w] = p]
    <3> DEFINE p == CASE dq_items_head = None -> "unhead"
                      [] dq_items_head = Mediator -> "lost"
                      [] OTHER -> "next"
    <3>1. p \in {"unhead", "lost", "next"}
      OBVIOUS
    <3>2. pc' = [pc EXCEPT ![w] = p]
      BY <1>11 DEF DrainStart, Goto
    <3> HIDE DEF p
    <3>3. QED
      BY <3>1, <3>2
  <2>3. Moves(w) /\ pc'[w] = p
    BY <1>b, <1>m, <2>1, <2>2
  <2>4. QED
    BY <1>o, <2>1, <2>3 DEF WorkerPC, BackingOff
<1>12. ASSUME NEW w \in Worker, DrainUnhead(w) PROVE Accounted'
  <2>1. pc[w] \in {"unhead"} /\ reg' = reg /\ Books(0, 0)
    BY <1>u, <1>12 DEF DrainUnhead, callVars, poolVars, Goto
  <2>2. PICK p \in {"probe tail", "drain"} : pc' = [pc EXCEPT ![w] = p]
    BY <1>12 DEF DrainUnhead, Goto
  <2>3. Moves(w) /\ pc'[w] = p
    BY <1>b, <1>m, <2>1, <2>2
  <2>4. QED
    BY <1>o, <2>1, <2>3 DEF WorkerPC, BackingOff
<1>13. ASSUME NEW w \in Worker, DrainProbeTail(w) PROVE Accounted'
  <2>1. pc[w] \in {"probe tail"} /\ reg' = reg /\ Books(0, 0)
    BY <1>u, <1>13 DEF DrainProbeTail, callVars, poolVars, Goto
  <2>2. PICK p \in {"park", "load head"} : pc' = [pc EXCEPT ![w] = p]
    BY <1>13 DEF DrainProbeTail, Goto
  <2>3. Moves(w) /\ pc'[w] = p
    BY <1>b, <1>m, <2>1, <2>2
  <2>4. QED
    BY <1>o, <2>1, <2>3 DEF WorkerPC, BackingOff
<1>14. ASSUME NEW w \in Worker, DrainNext(w) PROVE Accounted'
  <2>1. pc[w] \in {"next"} /\ reg' = [reg EXCEPT ![w] = [reg[w] EXCEPT !.next = do_next[reg[w].item]]]
        /\ Books(0, 0)
    BY <1>u, <1>14 DEF DrainNext, callVars, poolVars, Goto, Keep, Forget
  <2>2. PICK p \in {"unlink", "rehead"} : pc' = [pc EXCEPT ![w] = p]
    BY <1>14 DEF DrainNext, Goto
  <2>3. Moves(w) /\ pc'[w] = p
    BY <1>b, <1>m, <2>1, <2>2
  <2>4. QED
    BY <1>o, <2>1, <2>3 DEF WorkerPC, BackingOff
<1>15. ASSUME NEW w \in Worker, DrainUnlink(w) PROVE Accounted'
  <2>1. pc[w] \in {"unlink"} /\ reg' = reg /\ Books(0, 0)
    BY <1>u, <1>15 DEF DrainUnlink, callVars, poolVars, Goto
  <2>2. PICK p \in {"untail"} : pc' = [pc EXCEPT ![w] = p]
    BY <1>15 DEF DrainUnlink, Goto
  <2>3. Moves(w) /\ pc'[w] = p
    BY <1>b, <1>m, <2>1, <2>2
  <2>4. QED
    BY <1>o, <2>1, <2>3 DEF WorkerPC, BackingOff
<1>16. ASSUME NEW w \in Worker, DrainUntail(w) PROVE Accounted'
  <2>1. pc[w] \in {"untail"} /\ reg' = reg /\ Books(0, 0)
    BY <1>u, <1>16 DEF DrainUntail, callVars, poolVars, Goto
  <2>2. PICK p \in {"invoke", "await next"} : pc' = [pc EXCEPT ![w] = p]
    BY <1>16 DEF DrainUntail, Goto
  <2>3. Moves(w) /\ pc'[w] = p
    BY <1>b, <1>m, <2>1, <2>2
  <2>4. QED
    BY <1>o, <2>1, <2>3 DEF WorkerPC, BackingOff
<1>17. ASSUME NEW w \in Worker, DrainAwaitNext(w) PROVE Accounted'
  <2>1. pc[w] \in {"await next"}
        /\ reg' = [reg EXCEPT ![w] = [reg[w] EXCEPT !.next = do_next[reg[w].item]]] /\ Books(0, 0)
    BY <1>u, <1>17 DEF DrainAwaitNext, callVars, poolVars, Goto, Keep, Forget
  <2>2. PICK p \in {"rehead"} : pc' = [pc EXCEPT ![w] = p]
    BY <1>17 DEF DrainAwaitNext, Goto
  <2>3. Moves(w) /\ pc'[w] = p
    BY <1>b, <1>m, <2>1, <2>2
  <2>4. QED
    BY <1>o, <2>1, <2>3 DEF WorkerPC, BackingOff
<1>18. ASSUME NEW w \in Worker, DrainRehead(w) PROVE Accounted'
  <2>1. pc[w] = "rehead" /\ Books(0, 0) /\ Poke(w, 1, 0, "invoke")
    BY <1>u, <1>18 DEF DrainRehead, callVars, poolVars
  <2>2. Moves(w) /\ DueBy(w, pc'[w], reg'[w]) = 0 /\ TakenBy(w, pc'[w], reg'[w]) = 1
    BY <1>b, <1>y, <2>1
  <2>3. DueBy(w, pc[w], reg[w]) = 0 /\ TakenBy(w, pc[w], reg[w]) = 1
    BY <1>w, <2>1 DEF WorkerPC, BackingOff
  <2>4. QED
    BY <1>b, <1>q, <2>1, <2>2, <2>3
<1>19. ASSUME NEW w \in Worker, DrainLost(w) PROVE Accounted'
  <2>1. dgq_thread_pool_size' = dgq_thread_pool_size /\ overcommit' = overcommit
        /\ dgq_thread_pool_size \in Int /\ dgq_pending \in Int
    BY <1>t, <1>19 DEF DrainLost, Contend, callVars, Types
  <2>b. /\ dgq_pending' = dgq_pending + 1 => Books(1, 0)
        /\ dgq_pending' = dgq_pending - 1 => Books(-1, 0)
    BY <2>1 DEF Books
  <2>2. ASSUME NEW status, ContentionEnds(w, status), status \in {"ready", "abort", "wait"}
        PROVE  Moves(w) /\ DueBy(w, pc'[w], reg'[w]) = 0 /\ TakenBy(w, pc'[w], reg'[w]) = 1
    <3>1. CASE Poke(w, 1, 0, "park")
      BY <1>b, <1>y, <3>1
    <3>2. CASE (Goto(w, "drain") \/ Goto(w, "park")) /\ Forget(w)
      <4>1. PICK p \in {"drain", "park"} : pc' = [pc EXCEPT ![w] = p]
        BY <3>2 DEF Goto
      <4>2. Moves(w) /\ pc'[w] = p
        BY <1>b, <1>m, <3>2, <4>1 DEF Forget, Keep
      <4>3. QED
        BY <1>w, <4>2 DEF WorkerPC, BackingOff
    <3>3. QED
      BY <2>2, <3>1, <3>2 DEF ContentionEnds
  <2>3. ASSUME NEW status \in {"ready", "abort", "wait"}, ContentionEnds(w, status),
               pc[w] = "lost", dgq_pending' = dgq_pending
        PROVE  Accounted'
    <3>1. DueBy(w, pc[w], reg[w]) = 0 /\ TakenBy(w, pc[w], reg[w]) = 1
      BY <1>w, <2>3 DEF WorkerPC, BackingOff
    <3>2. Books(0, 0)
      BY <1>u, <2>1, <2>3
    <3>3. QED
      BY <1>b, <1>q, <2>2, <2>3, <3>1, <3>2
  <2>4. ASSUME pc[w] = "lost", Books(1, 0), Goto(w, "lost backoff"), Forget(w)
        PROVE  Accounted'
    <3>1. DueBy(w, pc[w], reg[w]) = 0 /\ TakenBy(w, pc[w], reg[w]) = 1
      BY <1>w, <2>4 DEF WorkerPC, BackingOff
    <3>2. Moves(w) /\ pc'[w] = "lost backoff"
      BY <1>b, <1>m, <2>4 DEF Goto, Forget, Keep
    <3>3. DueBy(w, pc'[w], reg'[w]) = 1 /\ TakenBy(w, pc'[w], reg'[w]) = 1
      BY <1>w, <3>2 DEF WorkerPC, BackingOff
    <3>4. /\ DueBy(w, pc'[w], reg'[w]) = DueBy(w, pc[w], reg[w]) + 1
          /\ TakenBy(w, pc'[w], reg'[w]) = TakenBy(w, pc[w], reg[w]) + 0 /\ 1 \in Int /\ 0 \in Int
      BY <3>1, <3>3
    <3>5. QED
      BY <1>t, <1>b, <2>4, <3>2, <3>4, OneBooked
  <2>5. ASSUME pc[w] = "lost backoff", Books(-1, 0),
               \E status \in {"ready", "abort", "wait"} : ContentionEnds(w, status)
        PROVE  Accounted'
    <3>1. DueBy(w, pc[w], reg[w]) = 1 /\ TakenBy(w, pc[w], reg[w]) = 1
      BY <1>w, <2>5 DEF WorkerPC, BackingOff
    <3>2. Moves(w) /\ DueBy(w, pc'[w], reg'[w]) = 0 /\ TakenBy(w, pc'[w], reg'[w]) = 1
      BY <2>2, <2>5
    <3>3. /\ DueBy(w, pc'[w], reg'[w]) = DueBy(w, pc[w], reg[w]) + -1
          /\ TakenBy(w, pc'[w], reg'[w]) = TakenBy(w, pc[w], reg[w]) + 0 /\ -1 \in Int /\ 0 \in Int
      BY <3>1, <3>2
    <3>4. QED
      BY <1>t, <1>b, <2>5, <3>2, <3>3, OneBooked
  <2>6. QED
    BY <1>19, <2>b, <2>3, <2>4, <2>5 DEF DrainLost, Contend
<1>20. ASSUME NEW w \in Worker, DrainLoadTail(w) PROVE Accounted'
  <2>1. dgq_thread_pool_size' = dgq_thread_pool_size /\ overcommit' = overcommit
        /\ dgq_thread_pool_size \in Int /\ dgq_pending \in Int
    BY <1>t, <1>20 DEF DrainLoadTail, Contend, callVars, Types
  <2>b. /\ dgq_pending' = dgq_pending + 1 => Books(1, 0)
        /\ dgq_pending' = dgq_pending - 1 => Books(-1, 0)
    BY <2>1 DEF Books
  <2>2. ASSUME NEW status, ContentionEnds(w, status), status \in {"ready", "abort", "wait"}
        PROVE  Moves(w) /\ DueBy(w, pc'[w], reg'[w]) = 0 /\ TakenBy(w, pc'[w], reg'[w]) = 1
    <3>1. CASE Poke(w, 1, 0, "park")
      BY <1>b, <1>y, <3>1
    <3>2. CASE (Goto(w, "drain") \/ Goto(w, "park")) /\ Forget(w)
      <4>1. PICK p \in {"drain", "park"} : pc' = [pc EXCEPT ![w] = p]
        BY <3>2 DEF Goto
      <4>2. Moves(w) /\ pc'[w] = p
        BY <1>b, <1>m, <3>2, <4>1 DEF Forget, Keep
      <4>3. QED
        BY <1>w, <4>2 DEF WorkerPC, BackingOff
    <3>3. QED
      BY <2>2, <3>1, <3>2 DEF ContentionEnds
  <2>3. ASSUME NEW status \in {"ready", "abort", "wait"}, ContentionEnds(w, status),
               pc[w] = "load tail", dgq_pending' = dgq_pending
        PROVE  Accounted'
    <3>1. DueBy(w, pc[w], reg[w]) = 0 /\ TakenBy(w, pc[w], reg[w]) = 1
      BY <1>w, <2>3 DEF WorkerPC, BackingOff
    <3>2. Books(0, 0)
      BY <1>u, <2>1, <2>3
    <3>3. QED
      BY <1>b, <1>q, <2>2, <2>3, <3>1, <3>2
  <2>4. ASSUME pc[w] = "load tail", Books(1, 0), Goto(w, "load head backoff"), Forget(w)
        PROVE  Accounted'
    <3>1. DueBy(w, pc[w], reg[w]) = 0 /\ TakenBy(w, pc[w], reg[w]) = 1
      BY <1>w, <2>4 DEF WorkerPC, BackingOff
    <3>2. Moves(w) /\ pc'[w] = "load head backoff"
      BY <1>b, <1>m, <2>4 DEF Goto, Forget, Keep
    <3>3. DueBy(w, pc'[w], reg'[w]) = 1 /\ TakenBy(w, pc'[w], reg'[w]) = 1
      BY <1>w, <3>2 DEF WorkerPC, BackingOff
    <3>4. /\ DueBy(w, pc'[w], reg'[w]) = DueBy(w, pc[w], reg[w]) + 1
          /\ TakenBy(w, pc'[w], reg'[w]) = TakenBy(w, pc[w], reg[w]) + 0 /\ 1 \in Int /\ 0 \in Int
      BY <3>1, <3>3
    <3>5. QED
      BY <1>t, <1>b, <2>4, <3>2, <3>4, OneBooked
  <2>5. ASSUME pc[w] = "load tail backoff", Books(-1, 0),
               \E status \in {"ready", "abort", "wait"} : ContentionEnds(w, status)
        PROVE  Accounted'
    <3>1. DueBy(w, pc[w], reg[w]) = 1 /\ TakenBy(w, pc[w], reg[w]) = 1
      BY <1>w, <2>5 DEF WorkerPC, BackingOff
    <3>2. Moves(w) /\ DueBy(w, pc'[w], reg'[w]) = 0 /\ TakenBy(w, pc'[w], reg'[w]) = 1
      BY <2>2, <2>5
    <3>3. /\ DueBy(w, pc'[w], reg'[w]) = DueBy(w, pc[w], reg[w]) + -1
          /\ TakenBy(w, pc'[w], reg'[w]) = TakenBy(w, pc[w], reg[w]) + 0 /\ -1 \in Int /\ 0 \in Int
      BY <3>1, <3>2
    <3>4. QED
      BY <1>t, <1>b, <2>5, <3>2, <3>3, OneBooked
  <2>6. QED
    BY <1>20, <2>b, <2>3, <2>4, <2>5 DEF DrainLoadTail, Contend
<1>21. ASSUME NEW w \in Worker, DrainLoadHead(w) PROVE Accounted'
  <2>1. PICK p \in {"load tail", "load tail backoff"} :
          /\ pc' = [pc EXCEPT ![w] = p] /\ reg' = [reg EXCEPT ![w] = [NoLocals EXCEPT !.item = dq_items_head]]
          /\ pc[w] = (IF p = "load tail" THEN "load head" ELSE "load head backoff")
    BY <1>21 DEF DrainLoadHead, Goto, Keep
  <2>2. Moves(w) /\ pc'[w] = p
    BY <1>b, <1>m, <2>1
  <2>3. /\ DueBy(w, pc'[w], reg'[w]) = DueBy(w, pc[w], reg[w])
        /\ TakenBy(w, pc'[w], reg'[w]) = TakenBy(w, pc[w], reg[w])
    <3>1. /\ TakenBy(w, pc'[w], reg'[w]) = 1 /\ TakenBy(w, pc[w], reg[w]) = 1
      BY <1>w, <2>1, <2>2 DEF WorkerPC
    <3>2. CASE p = "load tail"
      <4>1. DueBy(w, pc'[w], reg'[w]) = 0 /\ DueBy(w, pc[w], reg[w]) = 0
        <5>1. DueBy(w, "load tail", reg'[w]) = 0 /\ DueBy(w, "load head", reg[w]) = 0
          BY <1>w DEF WorkerPC, BackingOff
        <5>2. QED
          BY <2>1, <2>2, <3>2, <5>1
      <4>2. QED
        BY <3>1, <4>1
    <3>3. CASE p = "load tail backoff"
      <4>1. DueBy(w, pc'[w], reg'[w]) = 1 /\ DueBy(w, pc[w], reg[w]) = 1
        BY <1>w, <2>1, <2>2, <3>3 DEF WorkerPC, BackingOff
      <4>2. QED
        BY <3>1, <4>1
    <3>4. QED
      BY <3>2, <3>3
  <2>4. Books(0, 0)
    BY <1>u, <1>21 DEF DrainLoadHead, callVars, poolVars
  <2>5. QED
    BY <1>b, <1>q, <2>2, <2>3, <2>4
<1>22. ASSUME NEW w \in Worker, WorkerBorn(w) PROVE Accounted'
  <2>1. PICK p \in {"drain", "register"} : pc' = [pc EXCEPT ![w] = p] /\ pc[w] = "born" /\ reg' = reg
    BY <1>22 DEF WorkerBorn, Goto
  <2>2. Moves(w) /\ pc'[w] = p
    BY <1>b, <1>m, <2>1
  <2>3. /\ DueBy(w, pc'[w], reg'[w]) = 0 /\ TakenBy(w, pc'[w], reg'[w]) = 1
        /\ DueBy(w, pc[w], reg[w]) = 1 /\ TakenBy(w, pc[w], reg[w]) = 1
    <3>1. DueBy(w, "born", reg[w]) = 1 /\ TakenBy(w, "born", reg[w]) = 1
      BY <1>w DEF WorkerPC
    <3>2. DueBy(w, p, reg'[w]) = 0 /\ TakenBy(w, p, reg'[w]) = 1
      BY <1>w DEF WorkerPC, BackingOff
    <3>3. QED
      BY <2>1, <2>2, <3>1, <3>2
  <2>4. Books(-1, 0)
    BY <1>t, <1>22 DEF WorkerBorn, callVars, Books, Types
  <2>5. QED
    BY <1>t, <1>b, <2>2, <2>3, <2>4, OneBooked
<1>23. ASSUME NEW w \in Worker, WorkerRegister(w) PROVE Accounted'
  <2>1. pc[w] \in {"register"} /\ reg' = reg /\ Books(0, 0)
    BY <1>u, <1>23 DEF WorkerRegister, callVars, poolVars, Goto
  <2>2. PICK p \in {"drain"} : pc' = [pc EXCEPT ![w] = p]
    BY <1>23 DEF WorkerRegister, Goto
  <2>3. Moves(w) /\ pc'[w] = p
    BY <1>b, <1>m, <2>1, <2>2
  <2>4. QED
    BY <1>o, <2>1, <2>3 DEF WorkerPC, BackingOff
<1>24. ASSUME NEW w \in Worker, WorkerInvoke(w) PROVE Accounted'
  <2>1. pc[w] \in {"invoke"} /\ reg' = [reg EXCEPT ![w] = NoLocals] /\ Books(0, 0)
    BY <1>u, <1>24 DEF WorkerInvoke, callVars, poolVars, Goto, Keep, Forget
  <2>2. PICK p \in {"drain"} : pc' = [pc EXCEPT ![w] = p]
    BY <1>24 DEF WorkerInvoke, Goto
  <2>3. Moves(w) /\ pc'[w] = p
    BY <1>b, <1>m, <2>1, <2>2
  <2>4. QED
    BY <1>o, <2>1, <2>3 DEF WorkerPC, BackingOff
<1>25. ASSUME NEW w \in Worker, WorkerPark(w) PROVE Accounted'
  <2>1. pc[w] \in {"park"} /\ reg' = reg /\ Books(0, 0)
    BY <1>u, <1>25 DEF WorkerPark, callVars, poolVars, Goto
  <2>2. PICK p \in {"drain", "parked"} : pc' = [pc EXCEPT ![w] = p]
    BY <1>25 DEF WorkerPark, Goto
  <2>3. Moves(w) /\ pc'[w] = p
    BY <1>b, <1>m, <2>1, <2>2
  <2>4. QED
    BY <1>o, <2>1, <2>3 DEF WorkerPC, BackingOff
<1>26. ASSUME NEW w \in Worker, WorkerParked(w) PROVE Accounted'
  <2>1. pc[w] = "parked" /\ reg' = reg /\ Books(0, 0)
    BY <1>u, <1>26 DEF WorkerParked, callVars, poolVars
  <2>2. PICK p \in {"parked", "drain", "leave", "unregister"} : pc' = [pc EXCEPT ![w] = p]
    <3>1. pc' = pc \/ \E p \in {"drain", "leave", "unregister"} : pc' = [pc EXCEPT ![w] = p]
      BY <1>26 DEF WorkerParked, Goto
    <3>2. pc = [pc EXCEPT ![w] = "parked"]
      BY <1>f, <2>1
    <3>3. QED
      BY <3>1, <3>2
  <2>3. Moves(w) /\ pc'[w] = p
    BY <1>b, <1>m, <2>1, <2>2
  <2>4. QED
    BY <1>o, <2>1, <2>3 DEF WorkerPC, BackingOff
<1>27. ASSUME NEW w \in Worker, WorkerUnregister(w) PROVE Accounted'
  <2>1. pc[w] \in {"unregister"} /\ reg' = reg /\ Books(0, 0)
    BY <1>u, <1>27 DEF WorkerUnregister, callVars, poolVars, Goto
  <2>2. PICK p \in {"leave"} : pc' = [pc EXCEPT ![w] = p]
    BY <1>27 DEF WorkerUnregister, Goto
  <2>3. Moves(w) /\ pc'[w] = p
    BY <1>b, <1>m, <2>1, <2>2
  <2>4. QED
    BY <1>o, <2>1, <2>3 DEF WorkerPC, BackingOff
<1>28. ASSUME NEW w \in Worker, WorkerLeave(w) PROVE Accounted'
  <2>1. pc[w] = "leave" /\ Poke(w, 1, 0, "none")
    BY <1>28 DEF WorkerLeave
  <2>2. Moves(w) /\ DueBy(w, pc'[w], reg'[w]) = 0 /\ TakenBy(w, pc'[w], reg'[w]) = 0
    BY <1>b, <1>y, <2>1
  <2>3. DueBy(w, pc[w], reg[w]) = 0 /\ TakenBy(w, pc[w], reg[w]) = 1
    BY <1>w, <2>1 DEF WorkerPC, BackingOff
  <2>4. Books(0, -1)
    BY <1>t, <1>28 DEF WorkerLeave, callVars, Books, Types
  <2>5. QED
    BY <1>t, <1>b, <2>2, <2>3, <2>4, OneBooked
<1>29. ASSUME MonitorTick PROVE Accounted'
  <2>1. PICK f : Poke(Monitor, 1, f, "tick")
    BY <1>29 DEF MonitorTick
  <2>2. Books(0, 0) /\ pc[Monitor] = "tick"
    BY <1>u, <1>29 DEF MonitorTick, callVars, poolVars
  <2>3. Moves(Monitor) /\ DueBy(Monitor, pc'[Monitor], reg'[Monitor]) = 0
        /\ TakenBy(Monitor, pc'[Monitor], reg'[Monitor]) = 0
    BY <1>b, <1>y, <2>1
  <2>4. DueBy(Monitor, pc[Monitor], reg[Monitor]) = 0 /\ TakenBy(Monitor, pc[Monitor], reg[Monitor]) = 0
    BY <1>b, <1>c, <2>2 DEF AllPC, MonitorPC
  <2>5. QED
    BY <1>b, <1>q, <2>2, <2>3, <2>4
<1>30. CASE UNCHANGED vars
  <2>1. Accounted' = Accounted
    BY <1>30 DEF vars, callVars, poolVars, Accounted, PendingAccounted, PoolAccounted, PoolSize,
              Requested, Unborn, Alive, Leaving
  <2>2. QED
    BY <1>t, <2>1
<1>31. QED
  BY <1>1, <1>2, <1>3, <1>4, <1>5, <1>6, <1>7, <1>8, <1>9, <1>10, <1>11, <1>12, <1>13, <1>14,
     <1>15, <1>16, <1>17, <1>18, <1>19, <1>20, <1>21, <1>22, <1>23, <1>24, <1>25, <1>26, <1>27,
     <1>28, <1>29, <1>30 DEF Next, Step, PokeStep, WorkerStep, DrainStep

-----------------------------------------------------------------------------
(* Who leads to an item                                                      *)

\* The items that a thread at p with the locals l leads to, and those whose link it
\* has followed or does not need.
Holds(k, t, p, l, i) ==
  \/ k = "owner" /\ t \in Worker /\ (p \in Owned \/ (p \in PokePC /\ l.back = "invoke")) /\ l.item = i
  \/ k = "next" /\ t \in Worker /\ p = "rehead" /\ l.next = i
  \/ k = "push" /\ t \in Client /\ \/ p = "push" /\ Head(chain[t]) = i
                                   \/ p = "link" /\ l.next = i
Uses(t, p, l, i) ==
  /\ t \in Worker /\ l.item = i
  /\ p \in {"rehead", "invoke"} \/ (p \in PokePC /\ l.back = "invoke")

\* The thread goes on using what it used, and the step gives it no item.
KeepsUse(t) == \A i \in Item : Uses(t, pc[t], reg[t], i) => Uses(t, pc'[t], reg'[t], i) \/ i \in ran'
Keeps(t) ==
  /\ \A i \in Item, k \in Kinds : Holds(k, t, pc'[t], reg'[t], i) => Holds(k, t, pc[t], reg[t], i)
  /\ KeepsUse(t)

\* The places one by one.
LEMMA ByPlace ==
  ASSUME NEW k \in Kinds, NEW x, NEW i
  PROVE  /\ Leads(k, x, i) <=> \/ k = "head" /\ x = None /\ dq_items_head = i
                               \/ Holds(k, x, pc[x], reg[x], i)
                               \/ k = "link" /\ x \in Item /\ ~Consumed(x) /\ do_next[x] = i
         /\ Consumed(i) <=> i \in ran \/ \E w \in Worker : Uses(w, pc[w], reg[w], i)
BY DEF Leads, Holds, Owns, Consumed, Uses

\* The same of the next state.
LEMMA ByPlaceNext ==
  ASSUME NEW k \in Kinds, NEW x, NEW i, chain' = chain
  PROVE  /\ Leads(k, x, i)' <=> \/ k = "head" /\ x = None /\ dq_items_head' = i
                                \/ Holds(k, x, pc'[x], reg'[x], i)
                                \/ k = "link" /\ x \in Item /\ ~Consumed(x)' /\ do_next'[x] = i
         /\ Consumed(i)' <=> i \in ran' \/ \E w \in Worker : Uses(w, pc'[w], reg'[w], i)
BY DEF Leads, Holds, Owns, Consumed, Uses

\* A thread that does not move keeps what it has.
LEMMA OthersKeep ==
  ASSUME Types, NEW t \in Thread, Moves(t), NEW u \in Thread, u # t
  PROVE  pc'[u] = pc[u] /\ reg'[u] = reg[u] /\ Keeps(u)
<1>1. pc'[u] = pc[u] /\ reg'[u] = reg[u]
  BY DEF Moves, Types
<1>2. QED
  BY <1>1 DEF Keeps, KeepsUse

\* What was consumed stays so.
LEMMA ConsumedStays ==
  ASSUME chain' = chain, ran \subseteq ran', \A u \in Thread : KeepsUse(u), NEW i \in Item, Consumed(i)
  PROVE  Consumed(i)'
<1>1. CASE i \in ran
  BY <1>1 DEF Consumed
<1>2. CASE \E w \in Worker : Uses(w, pc[w], reg[w], i)
  <2>1. PICK w \in Worker : Uses(w, pc[w], reg[w], i)
    BY <1>2
  <2>2. Uses(w, pc'[w], reg'[w], i) \/ i \in ran'
    BY <2>1, Basics DEF KeepsUse
  <2>3. QED
    BY <2>2, ByPlaceNext DEF Kinds
<1>3. QED
  BY <1>1, <1>2, ByPlace DEF Kinds

\* Places may lose their item.
LEMMA OneLeadsLost ==
  ASSUME OneLeads, ran' = ran,
         \A i \in Item, k \in Kinds, x \in Holders : Leads(k, x, i)' => Leads(k, x, i)
  PROVE  OneLeads'
BY DEF OneLeads

\* A place may take the item over from another.
LEMMA OneLeadsPassed ==
  ASSUME OneLeads, ran' = ran,
         NEW k0 \in Kinds, NEW x0 \in Holders, NEW k1 \in Kinds, NEW x1 \in Holders,
         \A i \in Item, k \in Kinds, x \in Holders :
           Leads(k, x, i)' => Leads(k, x, i) \/ (k = k1 /\ x = x1 /\ Leads(k0, x0, i)),
         \A i \in Item : ~(Leads(k0, x0, i) /\ Leads(k0, x0, i)')
  PROVE  OneLeads'
<1> SUFFICES ASSUME NEW i \in Item
             PROVE  /\ \A k, l \in Kinds, x, y \in Holders : Leads(k, x, i)' /\ Leads(l, y, i)' => k = l /\ x = y
                    /\ i \in ran' => \A k \in Kinds, x \in Holders : ~Leads(k, x, i)'
  BY DEF OneLeads
<1>1. ASSUME NEW k \in Kinds, NEW l \in Kinds, NEW x \in Holders, NEW y \in Holders,
             Leads(k, x, i)', Leads(l, y, i)'
      PROVE  k = l /\ x = y
  <2>1. Leads(k, x, i) \/ (k = k1 /\ x = x1 /\ Leads(k0, x0, i))
    BY <1>1
  <2>2. Leads(l, y, i) \/ (l = k1 /\ y = x1 /\ Leads(k0, x0, i))
    BY <1>1
  <2>3. ~(Leads(k0, x0, i) /\ Leads(k0, x0, i)')
    OBVIOUS
  <2>4. CASE Leads(k, x, i) /\ Leads(l, y, i)
    BY <2>4 DEF OneLeads
  <2>5. CASE Leads(k, x, i) /\ Leads(k0, x0, i)
    <3>1. k = k0 /\ x = x0
      BY <2>5 DEF OneLeads
    <3>2. QED
      BY <1>1, <2>3, <2>5, <3>1
  <2>6. CASE Leads(l, y, i) /\ Leads(k0, x0, i)
    <3>1. l = k0 /\ y = x0
      BY <2>6 DEF OneLeads
    <3>2. QED
      BY <1>1, <2>3, <2>6, <3>1
  <2>7. QED
    BY <2>1, <2>2, <2>4, <2>5, <2>6
<1>2. ASSUME i \in ran', NEW k \in Kinds, NEW x \in Holders PROVE ~Leads(k, x, i)'
  <2>1. ~Leads(k, x, i) /\ ~Leads(k0, x0, i)
    BY <1>2 DEF OneLeads
  <2>2. QED
    BY <2>1
<1>3. QED
  BY <1>1, <1>2

\* A step after which no place has an item it did not have.
LEMMA LeadsLost ==
  ASSUME Types, chain' = chain, ran \subseteq ran', \A u \in Thread : Keeps(u),
         dq_items_head' = dq_items_head \/ dq_items_head' \notin Item,
         \A x \in Item : do_next'[x] = do_next[x] \/ do_next'[x] = None,
         NEW i \in Item, NEW k \in Kinds, NEW x \in Holders, Leads(k, x, i)'
  PROVE  Leads(k, x, i)
<1>1. CASE k = "head" /\ x = None /\ dq_items_head' = i
  BY <1>1, ByPlace
<1>2. CASE Holds(k, x, pc'[x], reg'[x], i)
  <2>1. x \in Thread
    BY <1>2, Basics DEF Holds
  <2>2. Holds(k, x, pc[x], reg[x], i)
    BY <1>2, <2>1 DEF Keeps
  <2>3. QED
    BY <2>2, ByPlace
<1>3. CASE k = "link" /\ x \in Item /\ ~Consumed(x)' /\ do_next'[x] = i
  <2>1. ~Consumed(x)
    BY <1>3, ConsumedStays DEF Keeps
  <2>2. do_next[x] = i
    BY <1>3, RootQueueAssumption
  <2>3. QED
    BY <1>3, <2>1, <2>2, ByPlace
<1>4. QED
  BY <1>1, <1>2, <1>3, ByPlaceNext

\* It keeps the invariant.
LEMMA OneLeadsQuiet ==
  ASSUME Types, OneLeads, chain' = chain, ran' = ran, \A u \in Thread : Keeps(u),
         dq_items_head' = dq_items_head \/ dq_items_head' \notin Item,
         \A x \in Item : do_next'[x] = do_next[x] \/ do_next'[x] = None
  PROVE  OneLeads'
<1>1. \A i \in Item, k \in Kinds, x \in Holders : Leads(k, x, i)' => Leads(k, x, i)
  BY LeadsLost
<1>2. QED
  BY <1>1, OneLeadsLost

\* A place that is a thread, or a link.
LEMMA HoldsLost ==
  ASSUME \A u \in Thread : Keeps(u), NEW i \in Item, NEW k \in Kinds, NEW x, Holds(k, x, pc'[x], reg'[x], i)
  PROVE  Leads(k, x, i)
<1>1. x \in Thread
  BY Basics DEF Holds
<1>2. Holds(k, x, pc[x], reg[x], i)
  BY <1>1 DEF Keeps
<1>3. QED
  BY <1>2, ByPlace

\* A link that is still to be followed was so before.
LEMMA LinkLost ==
  ASSUME chain' = chain, ran \subseteq ran', \A u \in Thread : KeepsUse(u), NEW i \in Item, NEW x \in Item,
         ~Consumed(x)', do_next'[x] = i, do_next'[x] = do_next[x]
  PROVE  Leads("link", x, i)
<1>1. ~Consumed(x)
  BY ConsumedStays
<1>2. QED
  BY <1>1 DEF Leads

\* Every step keeps the uniqueness of the places.
LEMMA LeadsStep == Types /\ Roles /\ Types' /\ OneLeads /\ [Next]_vars => OneLeads'
<1> SUFFICES ASSUME Types, Roles, Types', OneLeads, [Next]_vars PROVE OneLeads'
  OBVIOUS
<1>t. Types /\ Roles /\ Types' /\ OneLeads
  OBVIOUS
<1>b. /\ Client \subseteq Thread /\ Worker \subseteq Thread /\ Monitor \in Thread
      /\ Client \cap Worker = {} /\ Monitor \notin Client /\ Monitor \notin Worker
      /\ None \notin Item /\ Mediator \notin Item /\ Mediator # None
  BY Basics, RootQueueAssumption DEF Mediator
<1>f. pc \in [Thread -> AllPC] /\ reg \in [Thread -> Locals] /\ reg' \in [Thread -> Locals]
  BY <1>t DEF Types
<1>m. ASSUME NEW t \in Thread, NEW p, NEW l, pc' = [pc EXCEPT ![t] = p],
             reg' = [reg EXCEPT ![t] = l] \/ (reg' = reg /\ l = reg[t])
      PROVE  Moves(t) /\ pc'[t] = p /\ reg'[t] = l
  BY <1>f, <1>m DEF Moves
<1>q. ASSUME NEW t \in Thread, Moves(t), Keeps(t), chain' = chain, ran' = ran, do_next' = do_next,
             dq_items_head' = dq_items_head \/ dq_items_head' \notin Item
      PROVE  OneLeads'
  <2>1. \A u \in Thread : Keeps(u)
    BY <1>q, <1>t, OthersKeep
  <2>2. QED
    BY <1>q, <1>t, <2>1, OneLeadsQuiet
<1>o. ASSUME NEW w \in Worker, pc[w] \in WorkerPC \ Owned, pc'[w] \in WorkerPC \ Owned
      PROVE  Keeps(w)
  <2>1. pc'[w] \notin PokePC /\ pc[w] \notin PokePC /\ pc'[w] # "rehead" /\ pc[w] \notin {"rehead", "invoke"}
    BY <1>o DEF WorkerPC, PokePC, Owned
  <2>2. QED
    BY <1>b, <1>o, <2>1 DEF Keeps, KeepsUse, Holds, Uses
<1>g. ASSUME NEW w \in Worker, pc[w] \in Owned \ {"rehead", "invoke"}, pc'[w] \in Owned \ {"rehead"},
             reg'[w].item = reg[w].item
      PROVE  Keeps(w)
  <2>1. pc[w] \notin PokePC /\ pc'[w] # "rehead"
    BY <1>g DEF PokePC, Owned
  <2>2. QED
    BY <1>b, <1>g, <2>1 DEF Keeps, KeepsUse, Holds, Uses
<1>k. ASSUME NEW t \in Thread, pc[t] \in PokePC, pc'[t] \in PokePC, reg'[t].back = reg[t].back,
             reg'[t].item = reg[t].item
      PROVE  Keeps(t)
  <2>1. pc'[t] \notin {"rehead", "push", "link"}
    BY <1>k DEF PokePC
  <2>2. pc'[t] \notin Owned
    BY <1>k DEF PokePC, Owned
  <2>3. \A i \in Item, k \in Kinds : Holds(k, t, pc'[t], reg'[t], i) => Holds(k, t, pc[t], reg[t], i)
    BY <1>k, <2>1, <2>2 DEF Holds
  <2>4. KeepsUse(t)
    BY <1>k DEF KeepsUse, Uses, PokePC
  <2>5. QED
    BY <2>3, <2>4 DEF Keeps
<1>r. ASSUME NEW t \in Thread, pc[t] \in PokePC, PokeReturns(t)
      PROVE  Moves(t) /\ Keeps(t)
  <2> DEFINE l == Call(reg[t].item, 0, 0, "done")
  <2>1. reg[t].back \notin PokePC /\ reg' = [reg EXCEPT ![t] = l] /\ l.item = reg[t].item
    BY <1>t, <1>r, ReturnFits DEF PokeReturns, Keep
  <2>2. pc' = [pc EXCEPT ![t] = reg[t].back]
    BY <1>r DEF PokeReturns, Goto
  <2> HIDE DEF l
  <2>3. Moves(t) /\ pc'[t] = reg[t].back /\ reg'[t] = l
    BY <1>m, <2>1, <2>2
  <2>4. reg[t].back \in {"done", "invoke", "park", "none", "tick"}
    BY <1>f DEF Locals
  <2>5. /\ reg[t].back \notin {"rehead", "push", "link"}
        /\ reg[t].back \in Owned <=> reg[t].back = "invoke"
    BY <2>4 DEF Owned
  <2>6. pc[t] \notin {"rehead", "invoke"}
    BY <1>r DEF PokePC
  <2>7. Keeps(t)
    BY <1>r, <2>1, <2>3, <2>5, <2>6 DEF Keeps, KeepsUse, Holds, Uses
  <2>8. QED
    BY <2>3, <2>7
<1>s. ASSUME NEW t \in Thread, pc[t] \in PokePC, PokeReturns(t), chain' = chain, ran' = ran,
             do_next' = do_next, dq_items_head' = dq_items_head
      PROVE  OneLeads'
  BY <1>q, <1>r, <1>s
<1>y. ASSUME NEW t \in Thread, NEW n, NEW f, NEW b, Poke(t, n, f, b)
      PROVE  /\ Moves(t) /\ pc'[t] = "probe" /\ reg'[t].back = b
             /\ b = "invoke" => reg'[t].item = reg[t].item
  <2> DEFINE i == IF b = "invoke" THEN reg[t].item ELSE None
             l == [NoLocals EXCEPT !.item = i, !.remaining = n, !.floor = f, !.back = b]
  <2>1. pc' = [pc EXCEPT ![t] = "probe"] /\ reg' = [reg EXCEPT ![t] = l]
    BY <1>y DEF Poke, Goto, Keep
  <2>2. l.back = b
    BY DEF NoLocals
  <2>3. l.item = i
    <3> HIDE DEF i
    <3>1. QED
      BY DEF NoLocals
  <2> HIDE DEF l
  <2>4. Moves(t) /\ pc'[t] = "probe" /\ reg'[t] = l
    BY <1>m, <2>1
  <2>5. QED
    BY <2>2, <2>3, <2>4
<1>z. ASSUME NEW w \in Worker, NEW n, NEW f, NEW b, Poke(w, n, f, b), b # "invoke", pc[w] \in WorkerPC \ Owned
      PROVE  Moves(w) /\ Keeps(w)
  <2>1. Moves(w) /\ pc'[w] = "probe" /\ reg'[w].back # "invoke"
    BY <1>b, <1>y, <1>z
  <2>2. pc[w] \notin PokePC /\ pc[w] \notin {"rehead", "invoke"} /\ pc'[w] \notin Owned /\ pc'[w] # "rehead"
    BY <1>z, <2>1 DEF WorkerPC, PokePC, Owned
  <2>3. QED
    BY <1>b, <2>1, <2>2 DEF Keeps, KeepsUse, Holds, Uses
<1>1. ASSUME NEW c \in Client, PushTail(c) PROVE OneLeads'
  <2> DEFINE last == chain[c][Len(chain[c])]
             l == [NoLocals EXCEPT !.item = dq_items_tail, !.next = Head(chain[c])]
  <2>1. /\ pc[c] = "push" /\ chain' = chain /\ ran' = ran /\ dq_items_head' = dq_items_head
        /\ do_next' = [do_next EXCEPT ![last] = None]
        /\ pc' = [pc EXCEPT ![c] = "link"] /\ reg' = [reg EXCEPT ![c] = l]
    BY <1>1 DEF PushTail, Goto, Keep, callVars
  <2>2. l.next = Head(chain[c])
    <3> DEFINE hd == Head(chain[c])
    <3> HIDE DEF hd
    <3>1. [NoLocals EXCEPT !.item = dq_items_tail, !.next = hd].next = hd
      BY DEF NoLocals
    <3>2. QED
      BY <3>1 DEF hd
  <2> HIDE DEF l
  <2>3. Moves(c) /\ pc'[c] = "link" /\ reg'[c] = l
    BY <1>b, <1>m, <2>1
  <2>4. Keeps(c)
    BY <1>b, <2>1, <2>2, <2>3 DEF Keeps, KeepsUse, Holds, Uses
  <2>5. \A u \in Thread : Keeps(u)
    BY <1>b, <1>t, <2>3, <2>4, OthersKeep
  <2>6. \A x \in Item : do_next'[x] = do_next[x] \/ do_next'[x] = None
    BY <1>t, <2>1 DEF Types
  <2>7. QED
    BY <1>t, <2>1, <2>5, <2>6, OneLeadsQuiet
<1>2. ASSUME NEW c \in Client, PushLink(c) PROVE OneLeads'
  <2>1. pc[c] = "link" /\ chain' = chain /\ ran' = ran /\ c \in Thread /\ c \notin Worker
    BY <1>b, <1>2 DEF PushLink, callVars
  <2>2. \A i \in Item : reg[c].next = i => Leads("push", c, i)
    BY <2>1 DEF Leads
  <2>3. ASSUME Moves(c), pc'[c] \in {"probe", "done"}
        PROVE  /\ \A u \in Thread : Keeps(u)
               /\ \A i \in Item : ~Leads("push", c, i)'
    <3>1. Keeps(c)
      BY <2>1, <2>3 DEF Keeps, KeepsUse, Holds, Uses
    <3>2. \A u \in Thread : Keeps(u)
      BY <1>t, <2>1, <2>3, <3>1, OthersKeep
    <3>3. \A i \in Item : ~Leads("push", c, i)'
      BY <2>1, <2>3 DEF Leads
    <3>4. QED
      BY <3>2, <3>3
  <2>4. CASE dq_items_head' = reg[c].next /\ Poke(c, Len(chain[c]), 0, "done") /\ do_next' = do_next
    <3>1. Moves(c) /\ pc'[c] = "probe"
      BY <1>y, <2>1, <2>4
    <3>2. (\A u \in Thread : Keeps(u)) /\ \A i \in Item : ~Leads("push", c, i)'
      BY <2>3, <3>1
    <3>3. ASSUME NEW i \in Item, NEW k \in Kinds, NEW x \in Holders, Leads(k, x, i)'
          PROVE  Leads(k, x, i) \/ (k = "head" /\ x = None /\ Leads("push", c, i))
      <4>1. CASE k = "head" /\ x = None /\ dq_items_head' = i
        BY <2>2, <2>4, <4>1
      <4>2. CASE Holds(k, x, pc'[x], reg'[x], i)
        BY <3>2, <4>2, HoldsLost, <1>t, <2>1
      <4>3. CASE k = "link" /\ x \in Item /\ ~Consumed(x)' /\ do_next'[x] = i
        BY <1>t, <2>1, <2>4, <3>2, <4>3, LinkLost DEF Keeps
      <4>4. QED
        BY <2>1, <3>3, <4>1, <4>2, <4>3, ByPlaceNext
    <3>4. "push" \in Kinds /\ "head" \in Kinds /\ c \in Holders /\ None \in Holders
      BY DEF Kinds, Holders
    <3>5. QED
      BY <1>t, <2>1, <3>2, <3>3, <3>4, OneLeadsPassed
  <2>5. CASE /\ do_next' = [do_next EXCEPT ![reg[c].item] = reg[c].next] /\ Goto(c, "done") /\ Forget(c)
             /\ dq_items_head' = dq_items_head
    <3>1. Moves(c) /\ pc'[c] = "done"
      BY <1>m, <2>1, <2>5 DEF Goto, Forget, Keep
    <3>2. (\A u \in Thread : Keeps(u)) /\ \A i \in Item : ~Leads("push", c, i)'
      BY <2>3, <3>1
    <3>3. CASE reg[c].item \in Item
      <4>0. PICK j \in Item : j = reg[c].item
        BY <3>3
      <4>1. ASSUME NEW i \in Item, NEW k \in Kinds, NEW x \in Holders, Leads(k, x, i)'
            PROVE  Leads(k, x, i) \/ (k = "link" /\ x = j /\ Leads("push", c, i))
        <5>1. CASE k = "head" /\ x = None /\ dq_items_head' = i
          BY <2>5, <5>1, ByPlace
        <5>2. CASE Holds(k, x, pc'[x], reg'[x], i)
          BY <3>2, <5>2, HoldsLost, <1>t, <2>1
        <5>3. CASE k = "link" /\ x \in Item /\ ~Consumed(x)' /\ do_next'[x] = i
          <6>1. CASE x = j
            <7>1. reg[c].next = i
              BY <1>t, <2>5, <4>0, <5>3, <6>1 DEF Types
            <7>2. QED
              BY <2>2, <5>3, <6>1, <7>1
          <6>2. CASE x # j
            <7>1. do_next'[x] = do_next[x]
              BY <1>t, <2>5, <4>0, <5>3, <6>2 DEF Types
            <7>2. QED
              BY <1>t, <2>1, <3>2, <5>3, <7>1, LinkLost DEF Keeps
          <6>3. QED
            BY <6>1, <6>2
        <5>4. QED
          BY <2>1, <4>1, <5>1, <5>2, <5>3, ByPlaceNext
      <4>2. "push" \in Kinds /\ "link" \in Kinds /\ c \in Holders /\ j \in Holders
        BY DEF Kinds, Holders
      <4>3. QED
        BY <1>t, <2>1, <3>2, <4>1, <4>2, OneLeadsPassed
    <3>4. CASE reg[c].item \notin Item
      <4>1. \A x \in Item : do_next'[x] = do_next[x]
        BY <1>t, <2>5, <3>4 DEF Types
      <4>2. QED
        BY <1>t, <2>1, <2>5, <3>2, <4>1, OneLeadsQuiet
    <3>5. QED
      BY <3>3, <3>4
  <2>6. QED
    BY <1>2, <2>4, <2>5 DEF PushLink
<1>3. ASSUME NEW t \in Thread, PokeProbe(t) PROVE OneLeads'
  <2>1. pc[t] \in PokePC /\ chain' = chain /\ ran' = ran /\ do_next' = do_next /\ dq_items_head' = dq_items_head
    BY <1>3 DEF PokeProbe, PokePC, callVars, queueVars
  <2>2. CASE PokeReturns(t)
    BY <1>s, <2>1, <2>2
  <2>3. CASE Goto(t, "signal") /\ reg' = reg
    <3>1. Moves(t) /\ pc'[t] = "signal" /\ reg'[t].back = reg[t].back /\ reg'[t].item = reg[t].item
      BY <1>m, <2>3 DEF Goto
    <3>2. Keeps(t)
      BY <1>k, <2>1, <3>1 DEF PokePC
    <3>3. QED
      BY <1>q, <2>1, <3>1, <3>2
  <2>4. QED
    BY <1>3, <2>2, <2>3 DEF PokeProbe
<1>4. ASSUME NEW t \in Thread, PokeSignal(t) PROVE OneLeads'
  <2>1. pc[t] \in PokePC /\ chain' = chain /\ ran' = ran /\ do_next' = do_next /\ dq_items_head' = dq_items_head
    BY <1>4 DEF PokeSignal, PokePC, callVars, queueVars
  <2>2. PICK p \in {"post", "pending"} : Goto(t, p) /\ reg' = reg
    BY <1>4 DEF PokeSignal
  <2>3. Moves(t) /\ pc'[t] = p /\ reg'[t] = reg[t]
    BY <1>m, <2>2 DEF Goto
  <2>4. Keeps(t)
    BY <1>k, <2>1, <2>3 DEF PokePC
  <2>5. QED
    BY <1>q, <2>1, <2>3, <2>4
<1>5. ASSUME NEW t \in Thread, PokePost(t) PROVE OneLeads'
  <2>1. pc[t] \in PokePC /\ chain' = chain /\ ran' = ran /\ do_next' = do_next /\ dq_items_head' = dq_items_head
    BY <1>5 DEF PokePost, PokePC, callVars, queueVars
  <2>2. CASE PokeReturns(t)
    BY <1>s, <2>1, <2>2
  <2>3. CASE Goto(t, "signal") /\ Keep(t, [reg[t] EXCEPT !.remaining = @ - 1])
    <3>1. Moves(t) /\ pc'[t] = "signal" /\ reg'[t].back = reg[t].back /\ reg'[t].item = reg[t].item
      <4>1. Moves(t) /\ pc'[t] = "signal" /\ reg'[t] = [reg[t] EXCEPT !.remaining = @ - 1]
        BY <1>m, <2>3 DEF Goto, Keep
      <4>2. QED
        BY <1>f, <4>1 DEF Locals
    <3>2. Keeps(t)
      BY <1>k, <2>1, <3>1 DEF PokePC
    <3>3. QED
      BY <1>q, <2>1, <3>1, <3>2
  <2>4. QED
    BY <1>5, <2>2, <2>3 DEF PokePost
<1>6. ASSUME NEW t \in Thread, PokePending(t) PROVE OneLeads'
  <2>1. pc[t] \in PokePC /\ chain' = chain /\ ran' = ran /\ do_next' = do_next /\ dq_items_head' = dq_items_head
    BY <1>6 DEF PokePending, PokePC, callVars, queueVars
  <2>2. CASE PokeReturns(t)
    BY <1>s, <2>1, <2>2
  <2>3. CASE Goto(t, "pool") /\ reg' = reg
    <3>1. Moves(t) /\ pc'[t] = "pool" /\ reg'[t].back = reg[t].back /\ reg'[t].item = reg[t].item
      BY <1>m, <2>3 DEF Goto
    <3>2. Keeps(t)
      BY <1>k, <2>1, <3>1 DEF PokePC
    <3>3. QED
      BY <1>q, <2>1, <3>1, <3>2
  <2>4. QED
    BY <1>6, <2>2, <2>3 DEF PokePending
<1>7. ASSUME NEW t \in Thread, PokePool(t) PROVE OneLeads'
  <2>1. pc[t] \in PokePC /\ chain' = chain /\ ran' = ran /\ do_next' = do_next /\ dq_items_head' = dq_items_head
    BY <1>7 DEF PokePool, PokePC, callVars, queueVars
  <2>2. PokeSizes(t, dgq_thread_pool_size)
    BY <1>7 DEF PokePool
  <2>3. QED
    <3>1. PICK p \in {"reduce", "take"} : Goto(t, p)
      BY <2>2 DEF PokeSizes
    <3>2. Moves(t) /\ pc'[t] = p /\ reg'[t] = [reg[t] EXCEPT !.t_count = dgq_thread_pool_size]
      BY <1>m, <3>1, <2>2 DEF PokeSizes, Goto, Keep
    <3>3. reg'[t].back = reg[t].back /\ reg'[t].item = reg[t].item
      BY <1>f, <3>2 DEF Locals
    <3>4. Keeps(t)
      BY <1>k, <2>1, <3>2, <3>3 DEF PokePC
    <3>5. QED
      BY <1>q, <2>1, <3>2, <3>4
<1>8. ASSUME NEW t \in Thread, PokeReduce(t) PROVE OneLeads'
  <2>1. pc[t] \in PokePC /\ chain' = chain /\ ran' = ran /\ do_next' = do_next /\ dq_items_head' = dq_items_head
    BY <1>8 DEF PokeReduce, PokePC, callVars, queueVars
  <2> DEFINE can == CanRequest(t, reg[t].t_count)
  <2> HIDE DEF can
  <2>2. CASE PokeReturns(t)
    BY <1>s, <2>1, <2>2
  <2>3. CASE Goto(t, "take") /\ Keep(t, [reg[t] EXCEPT !.remaining = can])
    <3>1. Moves(t) /\ pc'[t] = "take" /\ reg'[t].back = reg[t].back /\ reg'[t].item = reg[t].item
      <4>1. Moves(t) /\ pc'[t] = "take" /\ reg'[t] = [reg[t] EXCEPT !.remaining = can]
        BY <1>m, <2>3 DEF Goto, Keep
      <4>2. QED
        BY <1>f, <4>1 DEF Locals
    <3>2. Keeps(t)
      BY <1>k, <2>1, <3>1 DEF PokePC
    <3>3. QED
      BY <1>q, <2>1, <3>1, <3>2
  <2>4. QED
    BY <1>8, <2>2, <2>3 DEF PokeReduce, can
<1>9. ASSUME NEW t \in Thread, PokeTake(t) PROVE OneLeads'
  <2>1. pc[t] \in PokePC /\ chain' = chain /\ ran' = ran /\ do_next' = do_next /\ dq_items_head' = dq_items_head
    BY <1>9 DEF PokeTake, PokePC, callVars, queueVars
  <2>2. CASE Goto(t, "create") /\ reg' = reg
    <3>1. Moves(t) /\ pc'[t] = "create" /\ reg'[t].back = reg[t].back /\ reg'[t].item = reg[t].item
      BY <1>m, <2>2 DEF Goto
    <3>2. Keeps(t)
      BY <1>k, <2>1, <3>1 DEF PokePC
    <3>3. QED
      BY <1>q, <2>1, <3>1, <3>2
  <2>3. CASE PokeSizes(t, dgq_thread_pool_size)
    <3>1. PICK p \in {"reduce", "take"} : Goto(t, p)
      BY <2>3 DEF PokeSizes
    <3>2. Moves(t) /\ pc'[t] = p /\ reg'[t] = [reg[t] EXCEPT !.t_count = dgq_thread_pool_size]
      BY <1>m, <3>1, <2>3 DEF PokeSizes, Goto, Keep
    <3>3. reg'[t].back = reg[t].back /\ reg'[t].item = reg[t].item
      BY <1>f, <3>2 DEF Locals
    <3>4. Keeps(t)
      BY <1>k, <2>1, <3>2, <3>3 DEF PokePC
    <3>5. QED
      BY <1>q, <2>1, <3>2, <3>4
  <2>4. QED
    BY <1>9, <2>2, <2>3 DEF PokeTake
<1>10. ASSUME NEW t \in Thread, PokeCreate(t) PROVE OneLeads'
  <2>1. pc[t] \in PokePC /\ chain' = chain /\ ran' = ran /\ do_next' = do_next /\ dq_items_head' = dq_items_head
    BY <1>10 DEF PokeCreate, PokePC, callVars, queueVars
  <2> DEFINE last == reg[t].remaining = 1
             p == IF last THEN reg[t].back ELSE "create"
             l == IF last THEN [NoLocals EXCEPT !.item = reg[t].item]
                  ELSE [reg[t] EXCEPT !.remaining = @ - 1]
  <2>2. PICK w \in Worker : pc[w] = "none" /\ pc' = [pc EXCEPT ![w] = "born", ![t] = p]
    BY <1>10 DEF PokeCreate
  <2>3. w \in Thread /\ w # t /\ reg' = [reg EXCEPT ![t] = l]
    BY <1>b, <1>10, <2>2 DEF PokeCreate, Keep
  <2>4. /\ pc'[t] = p /\ pc'[w] = "born" /\ \A u \in Thread \ {t, w} : pc'[u] = pc[u]
        /\ reg'[t] = l /\ \A u \in Thread \ {t} : reg'[u] = reg[u]
    <3> HIDE DEF p, l
    <3>1. QED
      BY <1>f, <2>2, <2>3
  <2>5. Keeps(t)
    <3>1. CASE last
      <4>1. /\ reg[t].back \in {"done", "invoke", "park", "none", "tick"} /\ pc'[t] = reg[t].back
            /\ reg[t].back \notin PokePC /\ reg'[t].item = reg[t].item
        <5>1. /\ pc'[t] = reg[t].back /\ reg'[t] = Call(reg[t].item, 0, 0, "done")
              /\ reg[t].back \notin PokePC
          BY <1>t, <2>1, <2>4, <3>1, ReturnFits
        <5>2. reg'[t].item = reg[t].item
          BY <5>1 DEF Call
        <5>3. reg[t].back \in {"done", "invoke", "park", "none", "tick"}
          BY <1>f DEF Locals
        <5>4. QED
          BY <5>1, <5>2, <5>3
      <4>2. /\ reg[t].back \notin {"rehead", "push", "link"}
            /\ reg[t].back \in Owned <=> reg[t].back = "invoke"
        BY <4>1 DEF Owned
      <4>3. pc[t] \notin {"rehead", "invoke"}
        BY <2>1 DEF PokePC
      <4>4. QED
        BY <2>1, <4>1, <4>2, <4>3 DEF Keeps, KeepsUse, Holds, Uses
    <3>2. CASE ~last
      <4>1. pc'[t] = "create" /\ reg'[t] = [reg[t] EXCEPT !.remaining = @ - 1]
        BY <2>4, <3>2
      <4>2. reg'[t].back = reg[t].back /\ reg'[t].item = reg[t].item
        BY <1>f, <4>1 DEF Locals
      <4>3. QED
        BY <1>k, <2>1, <4>1, <4>2 DEF PokePC
    <3>3. QED
      BY <3>1, <3>2
  <2>6. Keeps(w)
    BY <1>o, <2>2, <2>4 DEF WorkerPC, Owned
  <2> HIDE DEF p, l, last
  <2>7. \A u \in Thread : Keeps(u)
    <3>1. ASSUME NEW u \in Thread, u # t, u # w PROVE Keeps(u)
      <4>1. pc'[u] = pc[u] /\ reg'[u] = reg[u]
        BY <2>4, <3>1
      <4>2. QED
        BY <4>1 DEF Keeps, KeepsUse
    <3>2. QED
      BY <2>5, <2>6, <3>1
  <2>8. QED
    BY <1>t, <2>1, <2>7, OneLeadsQuiet
<1>11. ASSUME NEW w \in Worker, DrainStart(w) PROVE OneLeads'
  <2> DEFINE i0 == IF dq_items_head = Mediator THEN None ELSE dq_items_head
             l == [NoLocals EXCEPT !.item = i0]
             p == CASE dq_items_head = None -> "unhead"
                    [] dq_items_head = Mediator -> "lost"
                    [] OTHER -> "next"
  <2>1. /\ pc[w] = "drain" /\ chain' = chain /\ ran' = ran /\ do_next' = do_next /\ dq_items_head' = Mediator
        /\ pc' = [pc EXCEPT ![w] = p] /\ reg' = [reg EXCEPT ![w] = l]
    BY <1>11 DEF DrainStart, Goto, Keep, callVars
  <2>2. l.item = i0
    <3>1. l = Call(i0, 0, 0, "done")
      BY CallIs
    <3> HIDE DEF i0, l
    <3>2. QED
      BY <3>1 DEF Call
  <2>3. p \in {"unhead", "lost", "next"} /\ (p = "next" => i0 = dq_items_head)
        /\ (dq_items_head \in Item <=> p = "next")
    BY <1>t, <1>b DEF Types
  <2> HIDE DEF i0, l, p
  <2>4. Moves(w) /\ pc'[w] = p /\ reg'[w] = l /\ w \in Thread /\ w \notin Client
    BY <1>b, <1>m, <2>1
  <2>5. CASE p # "next"
    <3>1. Keeps(w)
      BY <1>o, <2>1, <2>3, <2>4, <2>5 DEF WorkerPC, Owned
    <3>2. QED
      BY <1>b, <1>q, <2>1, <2>4, <3>1
  <2>6. CASE p = "next"
    <3>1. \A u \in Thread : KeepsUse(u)
      <4>1. KeepsUse(w)
        BY <2>1 DEF KeepsUse, Uses, PokePC
      <4>2. QED
        BY <1>t, <2>4, <4>1, OthersKeep DEF Keeps
    <3>2. ASSUME NEW i \in Item, NEW k \in Kinds, NEW x \in Holders, Leads(k, x, i)'
          PROVE  Leads(k, x, i) \/ (k = "owner" /\ x = w /\ Leads("head", None, i))
      <4>1. CASE k = "head" /\ x = None /\ dq_items_head' = i
        BY <1>b, <2>1, <4>1
      <4>2. CASE Holds(k, x, pc'[x], reg'[x], i)
        <5>1. CASE x = w
          <6>1. k = "owner" /\ l.item = i
            BY <2>4, <2>6, <4>2, <5>1 DEF Holds
          <6>2. dq_items_head = i
            BY <2>2, <2>3, <2>6, <6>1
          <6>3. QED
            BY <5>1, <6>1, <6>2 DEF Leads
        <5>2. CASE x # w
          <6>1. x \in Thread
            BY <4>2, Basics DEF Holds
          <6>2. Holds(k, x, pc[x], reg[x], i)
            BY <1>t, <2>4, <4>2, <5>2, <6>1, OthersKeep
          <6>3. QED
            BY <6>2, ByPlace
        <5>3. QED
          BY <5>1, <5>2
      <4>3. CASE k = "link" /\ x \in Item /\ ~Consumed(x)' /\ do_next'[x] = i
        BY <1>t, <2>1, <3>1, <4>3, LinkLost
      <4>4. QED
        BY <2>1, <3>2, <4>1, <4>2, <4>3, ByPlaceNext
    <3>3. \A i \in Item : ~Leads("head", None, i)'
      BY <1>b, <2>1 DEF Leads
    <3>4. "owner" \in Kinds /\ "head" \in Kinds /\ w \in Holders /\ None \in Holders
      BY DEF Kinds, Holders
    <3>5. QED
      BY <1>t, <2>1, <3>2, <3>3, <3>4, OneLeadsPassed
  <2>7. QED
    BY <2>5, <2>6
<1>12. ASSUME NEW w \in Worker, DrainUnhead(w) PROVE OneLeads'
  <2>1. pc[w] \in {"unhead"} /\ reg' = reg /\ chain' = chain /\ ran' = ran /\ do_next' = do_next
        /\ (dq_items_head' = dq_items_head \/ dq_items_head' \notin Item)
    BY <1>b, <1>12 DEF DrainUnhead, callVars, queueVars
  <2>2. PICK p \in {"probe tail", "drain"} : pc' = [pc EXCEPT ![w] = p]
    BY <1>12 DEF DrainUnhead, Goto
  <2>3. Moves(w) /\ pc'[w] = p /\ reg'[w] = reg[w]
    BY <1>b, <1>m, <2>1, <2>2
  <2>4. Keeps(w)
    BY <1>o, <2>1, <2>3 DEF WorkerPC, Owned
  <2>5. QED
    BY <1>b, <1>q, <2>1, <2>3, <2>4
<1>13. ASSUME NEW w \in Worker, DrainProbeTail(w) PROVE OneLeads'
  <2>1. pc[w] \in {"probe tail"} /\ reg' = reg /\ chain' = chain /\ ran' = ran /\ do_next' = do_next
        /\ dq_items_head' = dq_items_head
    BY <1>13 DEF DrainProbeTail, callVars, queueVars
  <2>2. PICK p \in {"park", "load head"} : pc' = [pc EXCEPT ![w] = p]
    BY <1>13 DEF DrainProbeTail, Goto
  <2>3. Moves(w) /\ pc'[w] = p /\ reg'[w] = reg[w]
    BY <1>b, <1>m, <2>1, <2>2
  <2>4. Keeps(w)
    BY <1>o, <2>1, <2>3 DEF WorkerPC, Owned
  <2>5. QED
    BY <1>b, <1>q, <2>1, <2>3, <2>4
<1>14. ASSUME NEW w \in Worker, DrainNext(w) \/ DrainAwaitNext(w) PROVE OneLeads'
  <2>0. PICK j \in Item : j = reg[w].item
    BY <1>t, <1>b, <1>14 DEF DrainNext, DrainAwaitNext, Roles, Fits, Owned
  <2> DEFINE n == do_next[j]
  <2>1. /\ pc[w] \in {"next", "await next"} /\ chain' = chain /\ ran' = ran /\ do_next' = do_next
        /\ dq_items_head' = dq_items_head
        /\ reg' = [reg EXCEPT ![w] = [reg[w] EXCEPT !.next = n]]
    BY <1>14, <2>0 DEF DrainNext, DrainAwaitNext, Keep, callVars, queueVars
  <2>2. PICK p \in {"unlink", "rehead"} : pc' = [pc EXCEPT ![w] = p]
    BY <1>14 DEF DrainNext, DrainAwaitNext, Goto
  <2>3. /\ Moves(w) /\ pc'[w] = p /\ reg'[w] = [reg[w] EXCEPT !.next = n] /\ w \in Thread /\ w \notin Client
    BY <1>b, <1>m, <2>1, <2>2
  <2> HIDE DEF n
  <2>5. reg'[w].item = j /\ reg'[w].next = n
    BY <1>f, <2>0, <2>3 DEF Locals
  <2>6. CASE p = "unlink"
    <3>1. Keeps(w)
      BY <1>g, <2>0, <2>1, <2>3, <2>5, <2>6 DEF Owned
    <3>2. QED
      BY <1>q, <2>1, <2>3, <3>1
  <2>7. CASE p = "rehead"
    <3>1. \A u \in Thread : KeepsUse(u)
      <4>1. KeepsUse(w)
        BY <2>1 DEF KeepsUse, Uses, PokePC
      <4>2. QED
        BY <1>t, <2>3, <4>1, OthersKeep DEF Keeps
    <3>2. Leads("owner", w, j) /\ "owner" \in Kinds /\ \A v \in Worker : v \in Holders
      BY <2>0, <2>1 DEF Leads, Owns, Owned, Kinds, Holders
    <3>3. ~Consumed(j)
      <4>1. j \notin ran
        BY <1>t, <3>2 DEF OneLeads
      <4>2. ASSUME NEW v \in Worker, Uses(v, pc[v], reg[v], j) PROVE FALSE
        <5>1. Leads("owner", v, j)
          BY <4>2 DEF Uses, Leads, Owns, Owned
        <5>2. v = w
          BY <1>t, <3>2, <5>1 DEF OneLeads
        <5>3. QED
          BY <2>1, <4>2, <5>2 DEF Uses, PokePC
      <4>3. QED
        BY <3>2, <4>1, <4>2, ByPlace
    <3>4. ASSUME NEW i \in Item, NEW k \in Kinds, NEW x \in Holders, Leads(k, x, i)'
          PROVE  Leads(k, x, i) \/ (k = "next" /\ x = w /\ Leads("link", j, i))
      <4>1. CASE k = "head" /\ x = None /\ dq_items_head' = i
        <5>1. dq_items_head = i
          BY <2>1, <4>1
        <5>2. QED
          BY <4>1, <5>1 DEF Leads
      <4>2. CASE Holds(k, x, pc'[x], reg'[x], i)
        <5>1. CASE x = w
          <6>1. CASE k = "owner" /\ i = j
            BY <3>2, <5>1, <6>1
          <6>2. CASE k = "next" /\ i = n
            BY <3>3, <5>1, <6>2 DEF Leads, n
          <6>3. (k = "owner" /\ i = j) \/ (k = "next" /\ i = n)
            BY <2>3, <2>5, <4>2, <5>1 DEF Holds
          <6>4. QED
            BY <6>1, <6>2, <6>3
        <5>2. CASE x # w
          <6>1. x \in Thread
            BY <4>2, Basics DEF Holds
          <6>2. Holds(k, x, pc[x], reg[x], i)
            BY <1>t, <2>3, <4>2, <5>2, <6>1, OthersKeep
          <6>3. QED
            BY <6>2, ByPlace
        <5>3. QED
          BY <5>1, <5>2
      <4>3. CASE k = "link" /\ x \in Item /\ ~Consumed(x)' /\ do_next'[x] = i
        BY <1>t, <2>1, <3>1, <4>3, LinkLost
      <4>4. QED
        BY <2>1, <3>4, <4>1, <4>2, <4>3, ByPlaceNext
    <3>5. \A i \in Item : ~Leads("link", j, i)'
      <4>1. Uses(w, pc'[w], reg'[w], j)
        BY <2>3, <2>5, <2>7 DEF Uses
      <4>2. Consumed(j)'
        BY <2>1, <3>2, <4>1, ByPlaceNext
      <4>3. QED
        BY <4>2 DEF Leads
    <3>6. "next" \in Kinds /\ "link" \in Kinds /\ w \in Holders /\ j \in Holders
      BY DEF Kinds, Holders
    <3>7. QED
      BY <1>t, <2>1, <3>4, <3>5, <3>6, OneLeadsPassed
  <2>8. QED
    BY <2>6, <2>7
<1>15. ASSUME NEW w \in Worker, DrainUnlink(w) PROVE OneLeads'
  <2>1. pc[w] \in {"unlink"} /\ reg' = reg /\ chain' = chain /\ ran' = ran /\ do_next' = do_next
        /\ (dq_items_head' = dq_items_head \/ dq_items_head' \notin Item)
    BY <1>b, <1>15 DEF DrainUnlink, callVars, queueVars
  <2>2. PICK p \in {"untail"} : pc' = [pc EXCEPT ![w] = p]
    BY <1>15 DEF DrainUnlink, Goto
  <2>3. Moves(w) /\ pc'[w] = p /\ reg'[w] = reg[w]
    BY <1>b, <1>m, <2>1, <2>2
  <2>4. Keeps(w)
    BY <1>g, <2>1, <2>3 DEF WorkerPC, Owned
  <2>5. QED
    BY <1>b, <1>q, <2>1, <2>3, <2>4
<1>16. ASSUME NEW w \in Worker, DrainUntail(w) PROVE OneLeads'
  <2>1. pc[w] \in {"untail"} /\ reg' = reg /\ chain' = chain /\ ran' = ran /\ do_next' = do_next
        /\ dq_items_head' = dq_items_head
    BY <1>16 DEF DrainUntail, callVars, queueVars
  <2>2. PICK p \in {"invoke", "await next"} : pc' = [pc EXCEPT ![w] = p]
    BY <1>16 DEF DrainUntail, Goto
  <2>3. Moves(w) /\ pc'[w] = p /\ reg'[w] = reg[w]
    BY <1>b, <1>m, <2>1, <2>2
  <2>4. Keeps(w)
    BY <1>g, <2>1, <2>3 DEF WorkerPC, Owned
  <2>5. QED
    BY <1>b, <1>q, <2>1, <2>3, <2>4
<1>17. ASSUME NEW w \in Worker, DrainRehead(w) PROVE OneLeads'
  <2>1. /\ pc[w] = "rehead" /\ chain' = chain /\ ran' = ran /\ do_next' = do_next
        /\ dq_items_head' = reg[w].next
        /\ Poke(w, 1, 0, "invoke") /\ w \in Thread /\ w \notin Client
    BY <1>b, <1>17 DEF DrainRehead, callVars
  <2>2. Moves(w) /\ pc'[w] = "probe" /\ reg'[w].back = "invoke" /\ reg'[w].item = reg[w].item
    BY <1>y, <2>1
  <2>3. Keeps(w)
    BY <2>1, <2>2 DEF Keeps, KeepsUse, Holds, Uses, PokePC, Owned
  <2>4. \A u \in Thread : Keeps(u)
    BY <1>t, <2>1, <2>2, <2>3, OthersKeep
  <2>5. ASSUME NEW i \in Item, NEW k \in Kinds, NEW x \in Holders, Leads(k, x, i)'
        PROVE  Leads(k, x, i) \/ (k = "head" /\ x = None /\ Leads("next", w, i))
    <3>1. CASE k = "head" /\ x = None /\ dq_items_head' = i
      BY <2>1, <3>1 DEF Leads
    <3>2. CASE Holds(k, x, pc'[x], reg'[x], i)
      BY <2>4, <3>2, HoldsLost
    <3>3. CASE k = "link" /\ x \in Item /\ ~Consumed(x)' /\ do_next'[x] = i
      BY <2>1, <2>4, <3>3, LinkLost DEF Keeps
    <3>4. QED
      BY <2>1, <2>5, <3>1, <3>2, <3>3, ByPlaceNext
  <2>6. \A i \in Item : ~Leads("next", w, i)'
    BY <2>2 DEF Leads
  <2>7. "next" \in Kinds /\ "head" \in Kinds /\ w \in Holders /\ None \in Holders
    BY DEF Kinds, Holders
  <2>8. QED
    BY <1>t, <2>1, <2>5, <2>6, <2>7, OneLeadsPassed
<1>18. ASSUME NEW w \in Worker, DrainLost(w) PROVE OneLeads'
  <2>1. chain' = chain /\ ran' = ran /\ do_next' = do_next /\ dq_items_head' = dq_items_head
    BY <1>18 DEF DrainLost, Contend, callVars, queueVars
  <2>2. pc[w] \in WorkerPC \ Owned
    <3>1. pc[w] \in {"lost", "lost backoff"}
      BY <1>18 DEF DrainLost, Contend
    <3>2. QED
      BY <3>1 DEF WorkerPC, Owned
  <2>3. ASSUME NEW p \in {"drain", "park", "lost backoff"}, Goto(w, p), Forget(w)
        PROVE  Moves(w) /\ Keeps(w)
    <3>1. Moves(w) /\ pc'[w] = p
      BY <1>b, <1>m, <2>3 DEF Goto, Forget, Keep
    <3>2. QED
      BY <1>o, <2>2, <3>1 DEF WorkerPC, Owned
  <2>4. ASSUME Poke(w, 1, 0, "park") PROVE Moves(w) /\ Keeps(w)
    BY <1>z, <2>2, <2>4
  <2>5. \/ \E p \in {"drain", "park", "lost backoff"} : Goto(w, p) /\ Forget(w)
        \/ Poke(w, 1, 0, "park")
    BY <1>18 DEF DrainLost, Contend, ContentionEnds
  <2>6. QED
    BY <1>b, <1>q, <2>1, <2>3, <2>4, <2>5
<1>19. ASSUME NEW w \in Worker, DrainLoadTail(w) PROVE OneLeads'
  <2>1. chain' = chain /\ ran' = ran /\ do_next' = do_next /\ dq_items_head' = dq_items_head
    BY <1>19 DEF DrainLoadTail, Contend, callVars, queueVars
  <2>2. pc[w] \in WorkerPC \ Owned
    <3>1. pc[w] \in {"load tail", "load tail backoff"}
      BY <1>19 DEF DrainLoadTail, Contend
    <3>2. QED
      BY <3>1 DEF WorkerPC, Owned
  <2>3. ASSUME NEW p \in {"drain", "park", "load head backoff"}, Goto(w, p), Forget(w)
        PROVE  Moves(w) /\ Keeps(w)
    <3>1. Moves(w) /\ pc'[w] = p
      BY <1>b, <1>m, <2>3 DEF Goto, Forget, Keep
    <3>2. QED
      BY <1>o, <2>2, <3>1 DEF WorkerPC, Owned
  <2>4. ASSUME Poke(w, 1, 0, "park") PROVE Moves(w) /\ Keeps(w)
    BY <1>z, <2>2, <2>4
  <2>5. \/ \E p \in {"drain", "park", "load head backoff"} : Goto(w, p) /\ Forget(w)
        \/ Poke(w, 1, 0, "park")
    BY <1>19 DEF DrainLoadTail, Contend, ContentionEnds
  <2>6. QED
    BY <1>b, <1>q, <2>1, <2>3, <2>4, <2>5
<1>20. ASSUME NEW w \in Worker, DrainLoadHead(w) PROVE OneLeads'
  <2>1. PICK p \in {"load tail", "load tail backoff"} :
          /\ pc' = [pc EXCEPT ![w] = p] /\ reg' = [reg EXCEPT ![w] = [NoLocals EXCEPT !.item = dq_items_head]]
          /\ pc[w] \in {"load head", "load head backoff"}
    BY <1>20 DEF DrainLoadHead, Goto, Keep
  <2>2. Moves(w) /\ pc'[w] = p
    BY <1>b, <1>m, <2>1
  <2>3. Keeps(w)
    BY <1>o, <2>1, <2>2 DEF WorkerPC, Owned
  <2>4. chain' = chain /\ ran' = ran /\ do_next' = do_next /\ dq_items_head' = dq_items_head
    BY <1>20 DEF DrainLoadHead, callVars, queueVars
  <2>5. QED
    BY <1>b, <1>q, <2>2, <2>3, <2>4
<1>21. ASSUME NEW w \in Worker, WorkerBorn(w) PROVE OneLeads'
  <2>1. pc[w] \in {"born"} /\ reg' = reg /\ chain' = chain /\ ran' = ran /\ do_next' = do_next
        /\ dq_items_head' = dq_items_head
    BY <1>21 DEF WorkerBorn, callVars, queueVars
  <2>2. PICK p \in {"drain", "register"} : pc' = [pc EXCEPT ![w] = p]
    BY <1>21 DEF WorkerBorn, Goto
  <2>3. Moves(w) /\ pc'[w] = p /\ reg'[w] = reg[w]
    BY <1>b, <1>m, <2>1, <2>2
  <2>4. Keeps(w)
    BY <1>o, <2>1, <2>3 DEF WorkerPC, Owned
  <2>5. QED
    BY <1>b, <1>q, <2>1, <2>3, <2>4
<1>22. ASSUME NEW w \in Worker, WorkerRegister(w) PROVE OneLeads'
  <2>1. pc[w] \in {"register"} /\ reg' = reg /\ chain' = chain /\ ran' = ran /\ do_next' = do_next
        /\ dq_items_head' = dq_items_head
    BY <1>22 DEF WorkerRegister, callVars, queueVars
  <2>2. PICK p \in {"drain"} : pc' = [pc EXCEPT ![w] = p]
    BY <1>22 DEF WorkerRegister, Goto
  <2>3. Moves(w) /\ pc'[w] = p /\ reg'[w] = reg[w]
    BY <1>b, <1>m, <2>1, <2>2
  <2>4. Keeps(w)
    BY <1>o, <2>1, <2>3 DEF WorkerPC, Owned
  <2>5. QED
    BY <1>b, <1>q, <2>1, <2>3, <2>4
<1>23. ASSUME NEW w \in Worker, WorkerInvoke(w) PROVE OneLeads'
  <2>0. PICK j \in Item : j = reg[w].item
    BY <1>t, <1>b, <1>23 DEF WorkerInvoke, Roles, Fits, Owned
  <2>1. /\ pc[w] = "invoke" /\ chain' = chain /\ ran' = ran \cup {j} /\ do_next' = do_next
        /\ dq_items_head' = dq_items_head
        /\ pc' = [pc EXCEPT ![w] = "drain"] /\ reg' = [reg EXCEPT ![w] = NoLocals]
    BY <1>23, <2>0 DEF WorkerInvoke, Goto, Forget, Keep, callVars, queueVars
  <2>2. Moves(w) /\ pc'[w] = "drain" /\ w \in Thread /\ w \notin Client
    BY <1>b, <1>m, <2>1
  <2>3. Keeps(w)
    BY <2>0, <2>1, <2>2 DEF Keeps, KeepsUse, Holds, Uses, Owned, PokePC
  <2>4. \A u \in Thread : Keeps(u)
    BY <1>t, <2>2, <2>3, OthersKeep
  <2>5. \A i \in Item, k \in Kinds, x \in Holders : Leads(k, x, i)' => Leads(k, x, i)
    BY <1>t, <2>1, <2>4, LeadsLost
  <2>6. Leads("owner", w, j) /\ "owner" \in Kinds /\ w \in Holders
    BY <2>0, <2>1 DEF Leads, Owns, Owned, Kinds, Holders
  <2>7. ~Leads("owner", w, j)'
    BY <2>2 DEF Leads, Owns, Owned, PokePC
  <2>8. ASSUME NEW i \in Item
        PROVE  /\ \A k, l \in Kinds, x, y \in Holders : Leads(k, x, i)' /\ Leads(l, y, i)' => k = l /\ x = y
               /\ i \in ran' => \A k \in Kinds, x \in Holders : ~Leads(k, x, i)'
    <3>1. \A k, l \in Kinds, x, y \in Holders : Leads(k, x, i)' /\ Leads(l, y, i)' => k = l /\ x = y
      BY <1>t, <2>5 DEF OneLeads
    <3>2. CASE i \in ran
      BY <1>t, <2>5, <3>1, <3>2 DEF OneLeads
    <3>3. CASE i = j
      <4>1. ASSUME NEW k \in Kinds, NEW x \in Holders, Leads(k, x, i)' PROVE FALSE
        <5>1. k = "owner" /\ x = w
          BY <1>t, <2>5, <2>6, <3>3, <4>1 DEF OneLeads
        <5>2. QED
          BY <2>7, <3>3, <4>1, <5>1
      <4>2. QED
        BY <3>1, <4>1
    <3>4. QED
      BY <2>1, <3>1, <3>2, <3>3
  <2>9. QED
    BY <2>8 DEF OneLeads
<1>24. ASSUME NEW w \in Worker, WorkerPark(w) PROVE OneLeads'
  <2>1. pc[w] \in {"park"} /\ reg' = reg /\ chain' = chain /\ ran' = ran /\ do_next' = do_next
        /\ dq_items_head' = dq_items_head
    BY <1>24 DEF WorkerPark, callVars, queueVars
  <2>2. PICK p \in {"drain", "parked"} : pc' = [pc EXCEPT ![w] = p]
    BY <1>24 DEF WorkerPark, Goto
  <2>3. Moves(w) /\ pc'[w] = p /\ reg'[w] = reg[w]
    BY <1>b, <1>m, <2>1, <2>2
  <2>4. Keeps(w)
    BY <1>o, <2>1, <2>3 DEF WorkerPC, Owned
  <2>5. QED
    BY <1>b, <1>q, <2>1, <2>3, <2>4
<1>25. ASSUME NEW w \in Worker, WorkerParked(w) PROVE OneLeads'
  <2>1. pc[w] \in {"parked"} /\ reg' = reg /\ chain' = chain /\ ran' = ran /\ do_next' = do_next
        /\ dq_items_head' = dq_items_head
    BY <1>25 DEF WorkerParked, callVars, queueVars
  <2>2. PICK p \in {"parked", "drain", "leave", "unregister"} : pc' = [pc EXCEPT ![w] = p]
    <3>1. pc' = pc \/ \E p \in {"drain", "leave", "unregister"} : pc' = [pc EXCEPT ![w] = p]
      BY <1>25 DEF WorkerParked, Goto
    <3>2. pc = [pc EXCEPT ![w] = "parked"]
      BY <1>f, <2>1
    <3>3. QED
      BY <3>1, <3>2
  <2>3. Moves(w) /\ pc'[w] = p /\ reg'[w] = reg[w]
    BY <1>b, <1>m, <2>1, <2>2
  <2>4. Keeps(w)
    BY <1>o, <2>1, <2>3 DEF WorkerPC, Owned
  <2>5. QED
    BY <1>b, <1>q, <2>1, <2>3, <2>4
<1>26. ASSUME NEW w \in Worker, WorkerUnregister(w) PROVE OneLeads'
  <2>1. pc[w] \in {"unregister"} /\ reg' = reg /\ chain' = chain /\ ran' = ran /\ do_next' = do_next
        /\ dq_items_head' = dq_items_head
    BY <1>26 DEF WorkerUnregister, callVars, queueVars
  <2>2. PICK p \in {"leave"} : pc' = [pc EXCEPT ![w] = p]
    BY <1>26 DEF WorkerUnregister, Goto
  <2>3. Moves(w) /\ pc'[w] = p /\ reg'[w] = reg[w]
    BY <1>b, <1>m, <2>1, <2>2
  <2>4. Keeps(w)
    BY <1>o, <2>1, <2>3 DEF WorkerPC, Owned
  <2>5. QED
    BY <1>b, <1>q, <2>1, <2>3, <2>4
<1>27. ASSUME NEW w \in Worker, WorkerLeave(w) PROVE OneLeads'
  <2>1. pc[w] = "leave" /\ Poke(w, 1, 0, "none") /\ chain' = chain /\ ran' = ran /\ do_next' = do_next
        /\ dq_items_head' = dq_items_head
    BY <1>27 DEF WorkerLeave, callVars, queueVars
  <2>2. Moves(w) /\ Keeps(w)
    BY <1>z, <2>1 DEF WorkerPC, Owned
  <2>3. QED
    BY <1>b, <1>q, <2>1, <2>2
<1>28. ASSUME MonitorTick PROVE OneLeads'
  <2>1. PICK f : Poke(Monitor, 1, f, "tick")
    BY <1>28 DEF MonitorTick
  <2>2. chain' = chain /\ ran' = ran /\ do_next' = do_next /\ dq_items_head' = dq_items_head
    BY <1>28 DEF MonitorTick, callVars, queueVars
  <2>3. Moves(Monitor) /\ Keeps(Monitor)
    BY <1>b, <1>y, <2>1 DEF Keeps, KeepsUse, Holds, Uses
  <2>4. QED
    BY <1>b, <1>q, <2>2, <2>3
<1>29. CASE UNCHANGED vars
  BY <1>t, <1>29 DEF vars, callVars, queueVars, OneLeads, Leads, Consumed, Owns
<1>30. QED
  BY <1>1, <1>2, <1>3, <1>4, <1>5, <1>6, <1>7, <1>8, <1>9, <1>10, <1>11, <1>12, <1>13, <1>14,
     <1>15, <1>16, <1>17, <1>18, <1>19, <1>20, <1>21, <1>22, <1>23, <1>24, <1>25, <1>26, <1>27,
     <1>28, <1>29 DEF Next, Step, PokeStep, WorkerStep, DrainStep

-----------------------------------------------------------------------------
(* The mediator                                                              *)

\* The semaphore's assumption holds of the mediator.
LEMMA MediatorAssumption == Mediation!SemaphoreAssumption
<1>1. IsFiniteSet(Thread) /\ Cardinality(Thread) \in Nat
  BY ThreadsFinite
<1>2. Mediation!IsFiniteSet(Thread)
  BY <1>1, Zenon DEF IsFiniteSet, Mediation!IsFiniteSet
<1>3. MaxCredit + Cardinality(Thread) + Cardinality(Item) \in Nat
  BY <1>1, Basics, RootQueueAssumption
<1>4. 0 \in Nat /\ 0 <= MaxCredit + Cardinality(Thread) + Cardinality(Item)
  BY <1>3
<1>5. QED
  BY <1>2, <1>3, <1>4 DEF Mediation!SemaphoreAssumption

\* A step of the queue is a step of the mediator or leaves it alone.
LEMMA MediatorStep == [Next]_vars => [ThreadMediator!Next]_(ThreadMediator!vars)
<1> SUFFICES ASSUME [Next]_vars PROVE ThreadMediator!Next \/ UNCHANGED mediatorVars
  BY DEF ThreadMediator!vars, mediatorVars
<1>b. Worker \subseteq Thread
  BY Basics
<1>1. ASSUME NEW t \in Thread, PokeSignal(t) PROVE ThreadMediator!Next
  BY <1>1 DEF PokeSignal, ThreadMediator!Next
<1>2. ASSUME NEW t \in Thread, PokePost(t) PROVE ThreadMediator!Next
  BY <1>2 DEF PokePost, ThreadMediator!Next, ThreadMediator!Step
<1>3. ASSUME NEW w \in Worker, WorkerPark(w) PROVE ThreadMediator!Next
  <2>1. ThreadMediator!Wait(w, "timed") /\ "timed" \in ThreadMediator!Timeout
    BY <1>3 DEF WorkerPark, ThreadMediator!Timeout
  <2>2. QED
    BY <1>b, <2>1 DEF ThreadMediator!Next
<1>4. ASSUME NEW w \in Worker, WorkerParked(w) PROVE ThreadMediator!Next
  <2>1. ThreadMediator!Step(w)
    BY <1>4 DEF WorkerParked, ThreadMediator!Step
  <2>2. QED
    BY <1>b, <2>1 DEF ThreadMediator!Next
<1>5. ASSUME NEW c \in Client, PushTail(c) \/ PushLink(c) PROVE UNCHANGED mediatorVars
  BY <1>5 DEF PushTail, PushLink
<1>6. ASSUME NEW t \in Thread,
             PokeProbe(t) \/ PokePending(t) \/ PokePool(t) \/ PokeReduce(t) \/ PokeTake(t) \/ PokeCreate(t)
      PROVE  UNCHANGED mediatorVars
  BY <1>6 DEF PokeProbe, PokePending, PokePool, PokeReduce, PokeTake, PokeCreate
<1>7. ASSUME NEW w \in Worker, DrainStep(w) PROVE UNCHANGED mediatorVars
  <2>1. DrainStart(w) \/ DrainUnhead(w) \/ DrainProbeTail(w) \/ DrainNext(w) => UNCHANGED mediatorVars
    BY DEF DrainStart, DrainUnhead, DrainProbeTail, DrainNext
  <2>2. DrainUnlink(w) \/ DrainUntail(w) \/ DrainAwaitNext(w) \/ DrainRehead(w) => UNCHANGED mediatorVars
    BY DEF DrainUnlink, DrainUntail, DrainAwaitNext, DrainRehead
  <2>3. DrainLost(w) \/ DrainLoadHead(w) \/ DrainLoadTail(w) => UNCHANGED mediatorVars
    BY DEF DrainLost, DrainLoadHead, DrainLoadTail, Contend
  <2>4. QED
    BY <1>7, <2>1, <2>2, <2>3 DEF DrainStep
<1>8. ASSUME NEW w \in Worker,
             WorkerBorn(w) \/ WorkerRegister(w) \/ WorkerInvoke(w) \/ WorkerUnregister(w) \/ WorkerLeave(w)
      PROVE  UNCHANGED mediatorVars
  BY <1>8 DEF WorkerBorn, WorkerRegister, WorkerInvoke, WorkerUnregister, WorkerLeave
<1>9. ASSUME MonitorTick PROVE UNCHANGED mediatorVars
  BY <1>9 DEF MonitorTick
<1>10. ASSUME UNCHANGED vars PROVE UNCHANGED mediatorVars
  BY <1>10 DEF vars
<1>11. QED
  BY <1>1, <1>2, <1>3, <1>4, <1>5, <1>6, <1>7, <1>8, <1>9, <1>10 DEF Next, Step, PokeStep, WorkerStep

\* The semaphore of the mediator is the one the theorems are about.
LEMMA SameMediator ==
  /\ ThreadMediator!Init <=> Mediation!Init
  /\ ThreadMediator!Next <=> Mediation!Next
  /\ ThreadMediator!vars = Mediation!vars
  /\ Mediation!TypeOK <=> ThreadMediator!TypeOK
<1>1. ThreadMediator!Init <=> Mediation!Init
  BY DEF ThreadMediator!Init, Mediation!Init
<1>2. ThreadMediator!vars = Mediation!vars
  BY DEF ThreadMediator!vars, Mediation!vars
<1>3. ASSUME NEW t \in Thread
      PROVE  /\ ThreadMediator!Step(t) <=> Mediation!Step(t)
             /\ ThreadMediator!Signal(t) <=> Mediation!Signal(t)
             /\ \A o : ThreadMediator!Wait(t, o) <=> Mediation!Wait(t, o)
  <2>1. ThreadMediator!Step(t) <=> Mediation!Step(t)
    BY DEF ThreadMediator!Step, Mediation!Step, ThreadMediator!TimedWaitGets, Mediation!TimedWaitGets,
           ThreadMediator!TimedWaitExpires, Mediation!TimedWaitExpires, ThreadMediator!Undo, Mediation!Undo,
           ThreadMediator!WaitGets, Mediation!WaitGets, ThreadMediator!Post, Mediation!Post,
           ThreadMediator!Goto, Mediation!Goto, ThreadMediator!Acquired, Mediation!Acquired
  <2>2. ThreadMediator!Signal(t) <=> Mediation!Signal(t)
    BY DEF ThreadMediator!Signal, Mediation!Signal, ThreadMediator!Goto, Mediation!Goto
  <2>3. ASSUME NEW o PROVE ThreadMediator!Wait(t, o) <=> Mediation!Wait(t, o)
    BY DEF ThreadMediator!Wait, Mediation!Wait, ThreadMediator!Goto, Mediation!Goto,
           ThreadMediator!Acquired, Mediation!Acquired
  <2>4. QED
    BY <2>1, <2>2, <2>3
<1>4. ThreadMediator!Next <=> Mediation!Next
  BY <1>3 DEF ThreadMediator!Next, Mediation!Next, ThreadMediator!Timeout, Mediation!Timeout
<1>5. ThreadMediator!Cardinality(Thread) = Mediation!Cardinality(Thread)
  BY Zenon DEF ThreadMediator!Cardinality, Mediation!Cardinality, ThreadMediator!IsFiniteSet,
               Mediation!IsFiniteSet
<1>6. Mediation!TypeOK <=> ThreadMediator!TypeOK
  BY <1>5 DEF ThreadMediator!TypeOK, Mediation!TypeOK, ThreadMediator!Place, Mediation!Place,
              ThreadMediator!Slow, Mediation!Slow
<1>7. QED
  BY <1>1, <1>2, <1>4, <1>6

-----------------------------------------------------------------------------
(* The initial states                                                        *)

\* An item's first link is the next item of the chain that holds it.
LEMMA ChainNextIs ==
  ASSUME chain \in Chains, NEW i \in Item, ChainNext(i) # None
  PROVE  \E c \in Client, n \in Nat \ {0} :
           n < Len(chain[c]) /\ chain[c][n] = i /\ chain[c][n + 1] = ChainNext(i) /\ ChainNext(i) \in Item
<1> DEFINE here == {p \in Client \X (1..Cardinality(Item)) : p[2] < Len(chain[p[1]]) /\ chain[p[1]][p[2]] = i}
           p == CHOOSE p \in here : TRUE
<1>1. here # {} /\ ChainNext(i) = chain[p[1]][p[2] + 1]
  BY DEF ChainNext
<1>2. p \in here
  BY <1>1
<1> HIDE DEF p
<1>3. p[1] \in Client /\ p[2] \in 1..Cardinality(Item) /\ p[2] < Len(chain[p[1]]) /\ chain[p[1]][p[2]] = i
  BY <1>2
<1>4. p[2] \in Nat \ {0}
  BY <1>3, Basics
<1>5. chain[p[1]] \in Seq(Item) /\ Len(chain[p[1]]) \in Nat
  BY <1>3, ChainLength, Basics
<1>6. chain[p[1]][p[2] + 1] \in Item
  BY <1>3, <1>4, <1>5
<1>7. QED
  BY <1>1, <1>3, <1>4, <1>6

\* A sum of zeros.
LEMMA TotalZero == ASSUME NEW f, \A t \in Thread : f[t] = 0 PROVE Total(f) = 0
<1>1. Units(f) = {}
  BY Basics DEF Units
<1>2. QED
  BY <1>1, FS_EmptySet DEF Total

\* The initial states satisfy the invariant.
LEMMA InvInit == Init => IInv
<1> SUFFICES ASSUME Init PROVE IInv
  OBVIOUS
<1>b. /\ Client \subseteq Thread /\ Worker \subseteq Thread /\ Monitor \in Thread
      /\ Client \cap Worker = {} /\ Monitor \notin Client /\ Monitor \notin Worker
      /\ Floor \in Int /\ Floor <= 0 /\ MaxThreads \in Nat /\ ActiveCpus \in Nat
      /\ Cardinality(Item) \in Nat /\ None \notin Item /\ Thread = Client \cup Worker \cup {Monitor}
  BY Basics, RootQueueAssumption DEF Thread
<1>1. /\ chain \in Chains /\ dq_items_head = None /\ ran = {} /\ dgq_pending = 0
      /\ dgq_thread_pool_size = PoolSize /\ do_next = [i \in Item |-> ChainNext(i)]
      /\ reg = [t \in Thread |-> NoLocals]
  BY DEF Init
<1>2. /\ \A c \in Client : pc[c] = IF chain[c] = <<>> THEN "done" ELSE "push"
      /\ \A w \in Worker : pc[w] = "none"
      /\ pc[Monitor] = "tick" /\ pc \in [Thread -> AllPC]
  <2> DEFINE first(t) == CASE t \in Client -> IF chain[t] = <<>> THEN "done" ELSE "push"
                           [] t \in Worker -> "none"
                           [] t = Monitor -> "tick"
  <2>1. pc = [t \in Thread |-> first(t)]
    BY DEF Init
  <2>2. \A c \in Client : first(c) = IF chain[c] = <<>> THEN "done" ELSE "push"
    BY <1>b
  <2>3. \A w \in Worker : first(w) = "none"
    BY <1>b
  <2>4. first(Monitor) = "tick"
    BY <1>b
  <2> HIDE DEF first
  <2>5. \A t \in Thread : first(t) \in AllPC
    BY <1>b, <2>2, <2>3, <2>4 DEF AllPC, ClientPC, WorkerPC, MonitorPC
  <2>6. QED
    BY <1>b, <2>1, <2>2, <2>3, <2>4, <2>5
<1>3. \A t \in Thread : reg[t] = NoLocals /\ NoLocals \in Locals
  <2>1. NoLocals \in Locals
    BY <1>b DEF NoLocals, Locals
  <2>2. QED
    BY <1>1, <2>1
<1>4. Types
  <2>1. do_next \in [Item -> Item \cup {None}]
    BY <1>1, ChainNextIs
  <2>2. dgq_pending \in Int /\ dgq_thread_pool_size \in Int /\ dgq_thread_pool_size >= Floor
    BY <1>b, <1>1 DEF PoolSize
  <2>3. reg \in [Thread -> Locals]
    BY <1>1, <1>3
  <2>4. QED
    BY <1>2, <2>1, <2>2, <2>3 DEF Init, Types
<1>5. Roles
  <2>1. ASSUME NEW t \in Thread PROVE Fits(t, pc[t], reg[t])
    <3>1. CASE t \in Client
      BY <1>b, <1>2, <3>1 DEF Fits, ClientPC, PokePC
    <3>2. CASE t \in Worker
      BY <1>b, <1>2, <3>2 DEF Fits, WorkerPC, PokePC, Owned
    <3>3. CASE t = Monitor
      BY <1>b, <1>2, <3>3 DEF Fits, MonitorPC, PokePC
    <3>4. QED
      BY <1>b, <3>1, <3>2, <3>3
  <2>2. QED
    BY <2>1 DEF Roles
<1>6. \A t \in Thread : pc[t] \notin {"pool", "reduce", "take", "create"}
  BY <1>b, <1>2
<1>7. PendingAccounted
  <2>1. Total(Requested) = 0
    BY <1>6, TotalZero DEF Requested
  <2>2. {w \in Worker : pc[w] \in {"born"} \cup BackingOff} = {}
    BY <1>2 DEF BackingOff
  <2>3. QED
    BY <1>1, <2>1, <2>2, FS_EmptySet DEF PendingAccounted
<1>8. PoolAccounted
  <2>1. Total(Unborn) = 0
    BY <1>6, TotalZero DEF Unborn
  <2>2. Alive = {}
    BY <1>2 DEF Alive
  <2>3. Cardinality(Alive) = 0 /\ PoolSize \in Int
    BY <1>b, <2>2, FS_EmptySet DEF PoolSize
  <2>4. QED
    BY <1>1, <2>1, <2>3 DEF PoolAccounted
<1>9. OneLeads
  <2>1. ASSUME NEW i \in Item, NEW k \in Kinds, NEW x \in Holders, Leads(k, x, i)
        PROVE  \E c \in Client, n \in Nat \ {0} :
                 /\ n \in 1..Len(chain[c]) /\ chain[c][n] = i
                 /\ \/ k = "push" /\ x = c /\ n = 1
                    \/ k = "link" /\ n > 1 /\ n - 1 \in 1..Len(chain[c]) /\ chain[c][n - 1] = x
    <3>1. CASE k = "push"
      <4>1. x \in Client /\ pc[x] = "push" /\ Head(chain[x]) = i
        BY <1>2, <2>1, <3>1 DEF Leads
      <4>2. chain[x] \in Seq(Item) /\ chain[x] # <<>>
        BY <1>1, <1>2, <4>1, ChainLength
      <4>3. chain[x][1] = i /\ 1 \in 1..Len(chain[x])
        BY <4>1, <4>2
      <4>4. QED
        BY <3>1, <4>1, <4>3
    <3>2. CASE k = "link"
      <4>1. x \in Item /\ do_next[x] = i
        BY <2>1, <3>2 DEF Leads
      <4>2. ChainNext(x) = i
        BY <1>1, <4>1
      <4>3. PICK c \in Client, n \in Nat \ {0} :
              n < Len(chain[c]) /\ chain[c][n] = x /\ chain[c][n + 1] = i
        BY <1>b, <1>1, <4>1, <4>2, ChainNextIs
      <4>4. Len(chain[c]) \in Nat
        BY <1>1, ChainLength, Basics
      <4>5. /\ n + 1 \in Nat \ {0} /\ n + 1 \in 1..Len(chain[c]) /\ n + 1 > 1
            /\ (n + 1) - 1 = n /\ n \in 1..Len(chain[c])
        BY <4>3, <4>4
      <4>6. QED
        BY <3>2, <4>3, <4>5
    <3>3. CASE k \notin {"push", "link"}
      BY <1>b, <1>1, <1>2, <2>1, <3>3 DEF Leads, Owns, Owned, PokePC
    <3>4. QED
      BY <3>1, <3>2, <3>3
  <2>2. ASSUME NEW i \in Item, NEW k \in Kinds, NEW l \in Kinds, NEW x \in Holders, NEW y \in Holders,
               Leads(k, x, i), Leads(l, y, i)
        PROVE  k = l /\ x = y
    <3>1. PICK c \in Client, n \in Nat \ {0} :
                 /\ n \in 1..Len(chain[c]) /\ chain[c][n] = i
                 /\ \/ k = "push" /\ x = c /\ n = 1
                    \/ k = "link" /\ n > 1 /\ n - 1 \in 1..Len(chain[c]) /\ chain[c][n - 1] = x
      BY <2>1, <2>2
    <3>2. PICK d \in Client, m \in Nat \ {0} :
                 /\ m \in 1..Len(chain[d]) /\ chain[d][m] = i
                 /\ \/ l = "push" /\ y = d /\ m = 1
                    \/ l = "link" /\ m > 1 /\ m - 1 \in 1..Len(chain[d]) /\ chain[d][m - 1] = y
      BY <2>1, <2>2
    <3>3. c = d /\ n = m
      BY <1>1, <3>1, <3>2, RootQueueAssumption
    <3>4. QED
      BY <3>1, <3>2, <3>3
  <2>3. QED
    BY <1>1, <2>2 DEF OneLeads
<1>10. QED
  BY <1>4, <1>5, <1>7, <1>8, <1>9 DEF IInv

\* Every step keeps it.
LEMMA InvStep == IInv /\ [Next]_vars => IInv'
<1> SUFFICES ASSUME IInv, [Next]_vars PROVE IInv'
  OBVIOUS
<1>1. Types /\ Roles /\ Accounted /\ OneLeads
  BY DEF IInv, Accounted
<1>2. dgq_thread_pool_size <= MaxThreads
  BY <1>1, PoolBound DEF Accounted
<1>3. Types' /\ Roles'
  BY <1>1, <1>2, ShapeStep
<1>4. Accounted'
  BY <1>1, <1>3, AccountStep
<1>5. OneLeads'
  BY <1>1, <1>3, LeadsStep
<1>6. QED
  BY <1>3, <1>4, <1>5 DEF IInv, Accounted

-----------------------------------------------------------------------------
(* Theorems                                                                  *)

\* The inductive invariant holds in every state of every execution.
THEOREM Invariance == Spec => []IInv
BY InvInit, InvStep, PTL DEF Spec

\* dgq_pending counts the requested threads that do not run yet and the workers that
\* back off, whatever the pushers, the workers and the monitor do to it at once: a new
\* worker never finds it at zero.
THEOREM PendingCounted == Spec => []PendingAccounted
<1>1. IInv => PendingAccounted
  BY DEF IInv
<1>2. QED
  BY <1>1, Invariance, PTL

\* The pool size and the threads that exist or are being created add up to the pool,
\* though requests take from it, retry and reduce themselves concurrently.
THEOREM PoolCounted == Spec => []PoolAccounted
<1>1. IInv => PoolAccounted
  BY DEF IInv
<1>2. QED
  BY <1>1, Invariance, PTL

\* An item that a worker took from the head was not invoked before and belongs to no
\* other worker.
THEOREM OnceOnly == Spec => []InvokedOnce
<1>1. IInv => InvokedOnce
  <2> SUFFICES ASSUME IInv, NEW v \in Worker, Owns(v)
               PROVE  /\ reg[v].item \notin ran
                      /\ \A w \in Worker \ {v} : Owns(w) => reg[w].item # reg[v].item
    BY DEF InvokedOnce
  <2>1. OneLeads /\ reg[v].item \in Item
    BY Basics DEF IInv, Roles, Fits, Owns
  <2>2. \A w \in Worker : Owns(w) => Leads("owner", w, reg[w].item)
    BY DEF Leads
  <2>3. "owner" \in Kinds /\ Worker \subseteq Holders
    BY DEF Kinds, Holders
  <2>4. reg[v].item \notin ran
    BY <2>1, <2>2, <2>3 DEF OneLeads
  <2>5. ASSUME NEW w \in Worker, Owns(w), reg[w].item = reg[v].item PROVE w = v
    BY <2>1, <2>2, <2>3, <2>5 DEF OneLeads
  <2>6. QED
    BY <2>4, <2>5
<1>2. QED
  BY <1>1, Invariance, PTL

\* The queue uses its mediator as a semaphore is to be used: what it does to it is an
\* execution of the semaphore's specification, so that the semaphore's theorems hold
\* of it.
THEOREM MediatorUsed == Spec => ThreadMediator!Spec
<1>1. Init => ThreadMediator!Init
  BY DEF Init
<1>2. QED
  BY <1>1, MediatorStep, PTL DEF Spec, ThreadMediator!Spec

\* Every variable keeps its type; the pool size stays between the monitor's floor and
\* the size of the pool, and the pending count never goes below zero.
THEOREM TypeCorrect == Spec => []TypeOK
<1>1. Spec => []Mediation!TypeOK
  <2>1. ThreadMediator!Spec => Mediation!Spec
    <3>1. ThreadMediator!Init => Mediation!Init
      BY SameMediator
    <3>2. [ThreadMediator!Next]_(ThreadMediator!vars) => [Mediation!Next]_(Mediation!vars)
      BY SameMediator DEF ThreadMediator!vars, Mediation!vars
    <3>3. QED
      BY <3>1, <3>2, PTL DEF ThreadMediator!Spec, Mediation!Spec
  <2>2. Mediation!Spec => []Mediation!TypeOK
    BY MediatorAssumption, Mediation!TypeCorrect
  <2>3. QED
    BY <2>1, <2>2, MediatorUsed
<1>2. IInv /\ Mediation!TypeOK => TypeOK
  <2> SUFFICES ASSUME IInv, Mediation!TypeOK PROVE TypeOK
    OBVIOUS
  <2>1. Types /\ PendingAccounted /\ PoolAccounted
    BY DEF IInv
  <2>2. ThreadMediator!TypeOK
    BY SameMediator
  <2>3. dgq_pending \in Nat
    <3>1. pc \in [Thread -> AllPC] /\ reg \in [Thread -> Locals] /\ Monitor \in Thread
      BY <2>1, Basics DEF Types
    <3>2. Due(pc, reg) \in Nat
      BY <3>1, CountsMove
    <3>3. Requested = Asked(pc, reg) /\ Waiting(pc) = {w \in Worker : pc[w] \in {"born"} \cup BackingOff}
      BY InTerms DEF Requested, Waiting
    <3>4. QED
      BY <2>1, <3>2, <3>3 DEF PendingAccounted, Due
  <2>4. dgq_thread_pool_size \in Floor..MaxThreads
    BY <2>1, PoolBound, Basics DEF Types
  <2>5. QED
    BY <2>1, <2>2, <2>3, <2>4 DEF Types, TypeOK, AllPC
<1>3. QED
  BY <1>1, <1>2, Invariance, PTL
================================================================================
